---- MODULE Spec2Model ----
(***************************************************************************)
(* Model of the github-pr-helper extension: the diff summarizer            *)
(* (GitHubCliService.processDiff) and the content generator                *)
(* (AIService.generatePrContent).                                          *)
(*                                                                         *)
(* Text is modelled as a sequence of one-character strings.  A line of the *)
(* diff is a record [head, pad]: the characters of `head` followed by      *)
(* `pad` filler characters "x" (so that very long lines stay small in the  *)
(* model while their length is exact).                                     *)
(***************************************************************************)
EXTENDS Integers, Sequences, FiniteSets, TLC

(***************************************************************************)
(* String helpers (String.prototype.startsWith / endsWith / includes,      *)
(* template-literal number formatting).                                    *)
(***************************************************************************)
StartsWith(s, p) == Len(s) >= Len(p) /\ SubSeq(s, 1, Len(p)) = p

EndsWith(s, p) == Len(s) >= Len(p) /\ SubSeq(s, Len(s) - Len(p) + 1, Len(s)) = p

Contains(s, p) ==
    \E i \in 1..(Len(s) - Len(p) + 1) : SubSeq(s, i, i + Len(p) - 1) = p

DigitChar(d) == <<"0","1","2","3","4","5","6","7","8","9">>[d + 1]

RECURSIVE Digits(_)
Digits(n) == IF n < 10 THEN <<DigitChar(n)>>
             ELSE Digits(n \div 10) \o <<DigitChar(n % 10)>>

(***************************************************************************)
(* Lines.                                                                  *)
(***************************************************************************)
Line(head, pad) == [head |-> head, pad |-> pad]

LineLength(line) == Len(line.head) + line.pad

\* line.startsWith(p): the filler character "x" occurs in no prefix tested.
LineStartsWith(line, p) == StartsWith(line.head, p)

\* Sum of the lengths of the lines ls[lo..hi] (halving keeps the evaluation
\* shallow on long texts).
RECURSIVE SumLengthsIn(_, _, _)
SumLengthsIn(ls, lo, hi) ==
    IF lo > hi THEN 0
    ELSE IF lo = hi THEN LineLength(ls[lo])
    ELSE LET mid == (lo + hi) \div 2
         IN  SumLengthsIn(ls, lo, mid) + SumLengthsIn(ls, mid + 1, hi)

SumLengths(ls) == SumLengthsIn(ls, 1, Len(ls))

\* Length of result.join("\n").
JoinLength(ls) == IF ls = <<>> THEN 0 ELSE SumLengths(ls) + (Len(ls) - 1)

(***************************************************************************)
(* Constants of GitHubCliService.                                          *)
(***************************************************************************)
DEFAULT_LINES_PER_FILE == 100
PRIORITY_LINES_PER_FILE == 200
MAX_TOTAL_CHARS == 100000

DIFF_GIT == <<"d","i","f","f"," ","-","-","g","i","t">>
DIFF_GIT_A == DIFF_GIT \o <<" ","a","/">>
SP_B == <<" ","b","/">>

GLOBAL_SENTINEL ==
    Line(<<"\n",".",".","."," ","[","g","l","o","b","a","l"," ","l","i","m","i","t",
           " ","r","e","a","c","h","e","d"," ","-"," ","r","e","m","a","i","n","i",
           "n","g"," ","f","i","l","e","s"," ","t","r","u","n","c","a","t","e","d",
           "]"," ",".",".",".">>, 0)

TruncMsg(limit) ==
    Line(<<".",".","."," ","[","t","r","u","n","c","a","t","e","d"," ","-"," ",
           "f","i","l","e"," ","e","x","c","e","e","d","s"," ">>
         \o Digits(limit)
         \o <<" ","l","i","n","e","s","]"," ",".",".",".">>, 0)

\* SKIP_PATTERNS
SkipSuffixes ==
    { <<"p","a","c","k","a","g","e","-","l","o","c","k",".","j","s","o","n">>,
      <<"y","a","r","n",".","l","o","c","k">>,
      <<"p","n","p","m","-","l","o","c","k",".","y","a","m","l">>,
      <<".","m","i","n",".","j","s">>,
      <<".","m","i","n",".","c","s","s">>,
      <<".","m","a","p">>,
      <<".","s","n","a","p">> }

SkipInfixes ==
    { <<"d","i","s","t","/">>,
      <<"b","u","i","l","d","/">>,
      <<"c","o","v","e","r","a","g","e","/">>,
      <<".","g","e","n","e","r","a","t","e","d",".">>,
      <<"n","o","d","e","_","m","o","d","u","l","e","s","/">> }

\* HIGH_PRIORITY_PATTERNS
PriorityPrefixes == { <<"s","r","c","/">> }

PrioritySuffixes ==
    { <<".","t","s">>, <<".","t","s","x">>, <<".","j","s">>, <<".","j","s","x">>,
      <<"t","e","s","t",".","t","s">>, <<"t","e","s","t",".","j","s">>,
      <<"t","e","s","t",".","t","s","x">>, <<"t","e","s","t",".","j","s","x">>,
      <<"s","p","e","c",".","t","s">>, <<"s","p","e","c",".","j","s">>,
      <<"s","p","e","c",".","t","s","x">>, <<"s","p","e","c",".","j","s","x">> }

shouldSkipFile_SuffixOnly(filePath) ==
    \E p \in SkipSuffixes : EndsWith(filePath, p)

shouldSkipFile(filePath) ==
    \/ \E p \in SkipSuffixes : EndsWith(filePath, p)
    \/ \E p \in SkipInfixes : Contains(filePath, p)

isHighPriorityFile_Never(filePath) == FALSE

isHighPriorityFile(filePath) ==
    \/ \E p \in PriorityPrefixes : StartsWith(filePath, p)
    \/ \E p \in PrioritySuffixes : EndsWith(filePath, p)

getLineLimitForFile_Default(filePath) == DEFAULT_LINES_PER_FILE

getLineLimitForFile(filePath) ==
    IF isHighPriorityFile(filePath) THEN PRIORITY_LINES_PER_FILE
    ELSE DEFAULT_LINES_PER_FILE

\* diffHeader.match(/diff --git a\/(.+?) b\//): leftmost occurrence of
\* "diff --git a/", then the shortest non-empty capture followed by " b/".
MatchStarts(h) ==
    { i \in 1..Len(h) :
        /\ i + Len(DIFF_GIT_A) - 1 <= Len(h)
        /\ SubSeq(h, i, i + Len(DIFF_GIT_A) - 1) = DIFF_GIT_A
        /\ \E j \in (i + Len(DIFF_GIT_A) + 1)..(Len(h) - Len(SP_B) + 1) :
              SubSeq(h, j, j + Len(SP_B) - 1) = SP_B }

Min(S) == CHOOSE m \in S : \A n \in S : m <= n

extractFilePath_WholeHeader(diffHeader) ==
    IF MatchStarts(diffHeader.head) = {} THEN diffHeader.head
    ELSE LET i == Min(MatchStarts(diffHeader.head))
             from == i + Len(DIFF_GIT_A)
             j == Min({ k \in (from + 1)..(Len(diffHeader.head) - Len(SP_B) + 1) :
                          SubSeq(diffHeader.head, k, k + Len(SP_B) - 1) = SP_B })
         IN  SubSeq(diffHeader.head, from, j - 1)

extractFilePath(diffHeader) ==
    LET h == diffHeader.head
        starts == MatchStarts(h)
    IN  IF starts = {} THEN <<>>
        ELSE LET i == Min(starts)
                 from == i + Len(DIFF_GIT_A)
                 j == Min({ k \in (from + 1)..(Len(h) - Len(SP_B) + 1) :
                              SubSeq(h, k, k + Len(SP_B) - 1) = SP_B })
             IN  SubSeq(h, from, j - 1)

(***************************************************************************)
(* The raw diff.  It is kept as the sequence of its files, each a header   *)
(* line followed by `count` copies of a content line; diff.split("\n") is  *)
(* the concatenation of these runs (NumLines / LineAt).  The field `path`  *)
(* is the path the file was generated for (empty for a malformed header);  *)
(* processDiff never reads it.                                             *)
(***************************************************************************)
HeaderLine(path) == Line(DIFF_GIT_A \o path \o SP_B \o path, 0)

\* A header git would not write: "diff --git" with no a/ and b/ paths.
MalformedHeader == Line(DIFF_GIT, 0)

ContentLine(pad) == Line(<<"+">>, pad)

File(path, count, pad) ==
    [path |-> path, header |-> HeaderLine(path), count |-> count,
     body |-> ContentLine(pad)]

MalformedFile(count, pad) ==
    [path |-> <<>>, header |-> MalformedHeader, count |-> count,
     body |-> ContentLine(pad)]

P_README == <<"R","E","A","D","M","E",".","m","d">>
P_APP == <<"s","r","c","/","a","p","p",".","t","s">>
P_LOCK == <<"p","a","c","k","a","g","e","-","l","o","c","k",".","j","s","o","n">>
P_GUIDE == <<"d","o","c","s","/","g","u","i","d","e",".","m","d">>
P_NOTES == <<"n","o","t","e","s",".","t","x","t">>
P_DIST == <<"d","i","s","t","/","a",".","j","s">>
P_SVG == <<"a","s","s","e","t","s","/","b","i","g",".","s","v","g">>
P_UTIL == <<"l","i","b","/","u","t","i","l",".","j","s">>

\* "".split("\n") is [""]: an empty diff is one empty line.
NumLines(d) ==
    IF d = <<>> THEN 1
    ELSE LET RECURSIVE N(_)
             N(fs) == IF fs = <<>> THEN 0 ELSE 1 + Head(fs).count + N(Tail(fs))
         IN  N(d)

RECURSIVE LineAt(_, _)
LineAt(d, i) ==
    IF d = <<>> THEN Line(<<>>, 0)
    ELSE IF i = 1 THEN Head(d).header
    ELSE IF i <= 1 + Head(d).count THEN Head(d).body
    ELSE LineAt(Tail(d), i - 1 - Head(d).count)

\* Index in the split text of the header of the k-th file.
RECURSIVE HeaderIndex(_, _)
HeaderIndex(d, k) ==
    IF k = 1 THEN 1 ELSE 1 + Head(d).count + HeaderIndex(Tail(d), k - 1)

VARIABLES
    diff, commitMessages, rawStats,       \* arguments of processDiff
    pc, idx,                              \* position in the loop over lines
    result, stats, wasTruncated,
    currentFileLines, currentFilePath, currentLineLimit,
    skipCurrentFile, skipUntilNextFile, totalChars, globalLimitReached,
    origin,                               \* history: for each line of result,
                                          \* the index of the input line it
                                          \* copies (0 for a sentinel)
    limitAt,                              \* history: the index of the input
                                          \* line at which globalLimitReached
                                          \* was set (0: never)
    ret                                   \* the returned DiffResult

diffVars == <<diff, commitMessages, rawStats, pc, idx, result, stats,
              wasTruncated, currentFileLines, currentFilePath, currentLineLimit,
              skipCurrentFile, skipUntilNextFile, totalChars, globalLimitReached,
              origin, limitAt, ret>>

NoResult == [diff |-> <<>>, diffLength |-> 0,
             stats |-> [filesChanged |-> 0, linesAdded |-> 0, linesDeleted |-> 0,
                        filesSkipped |-> <<>>, filesTruncated |-> <<>>],
             commitMessages |-> <<>>, wasTruncated |-> FALSE]

InitStats_Recounted(raw) ==
    [filesChanged |-> 0,
     linesAdded |-> 0,
     linesDeleted |-> 0,
     filesSkipped |-> <<>>,
     filesTruncated |-> <<>>]

InitStats(raw) ==
    [filesChanged |-> 0,
     linesAdded |-> raw.additions,
     linesDeleted |-> raw.deletions,
     filesSkipped |-> <<>>,
     filesTruncated |-> <<>>]

\* Locals of processDiff before the loop.
processDiffEntry ==
    /\ pc = "loop"
    /\ idx = 1
    /\ result = <<>>
    /\ origin = <<>>
    /\ limitAt = 0
    /\ stats = InitStats(rawStats)
    /\ wasTruncated = FALSE
    /\ currentFileLines = 0
    /\ currentFilePath = <<>>
    /\ currentLineLimit = DEFAULT_LINES_PER_FILE
    /\ skipCurrentFile = FALSE
    /\ skipUntilNextFile = FALSE
    /\ totalChars = 0
    /\ globalLimitReached = FALSE
    /\ ret = NoResult

Push(seq, e) == Append(seq, e)

GlobalLimitHit_Repeated(total, reached) == total >= MAX_TOTAL_CHARS

\* totalChars >= MAX_TOTAL_CHARS && !globalLimitReached
GlobalLimitHit(total, reached) == total >= MAX_TOTAL_CHARS /\ ~reached

TrackAfterLimit_Untracked(st, isHeader, filePath) == st

\* After the global limit: "Still track file headers for stats".
TrackAfterLimit(st, isHeader, filePath) ==
    IF isHeader /\ filePath # <<>> /\ ~shouldSkipFile(filePath)
    THEN [st EXCEPT !.filesTruncated = Push(@, filePath)]
    ELSE st

RecordSkipped_Counted(st, filePath) ==
    [st EXCEPT !.filesSkipped = Push(@, filePath), !.filesChanged = @ + 1]

\* stats.filesSkipped.push(currentFilePath)
RecordSkipped(st, filePath) == [st EXCEPT !.filesSkipped = Push(@, filePath)]

\* stats.filesChanged++
CountIncluded(st) == [st EXCEPT !.filesChanged = @ + 1]

\* stats.filesTruncated.push(currentFilePath)
RecordTruncated(st, filePath) == [st EXCEPT !.filesTruncated = Push(@, filePath)]

WithinBudget_OffByOne(n, limit) == n <= limit + 1

\* currentFileLines <= currentLineLimit
WithinBudget(n, limit) == n <= limit

\* currentFileLines === currentLineLimit + 1
AtTruncationPoint(n, limit) == n = limit + 1

TruncatedOnHit_Forgotten(was, hit) == was

\* wasTruncated = true beside globalLimitReached = true
TruncatedOnHit(was, hit) == was \/ hit

(***************************************************************************)
(* One iteration of `for (const line of lines)` in processDiff.            *)
Charged_SentinelsFree(total, line) ==
    IF StartsWith(line.head, <<".">>) THEN total ELSE total + LineLength(line) + 1

\* totalChars += line.length + 1, and totalChars += truncMsg.length + 1
Charged(total, line) == total + LineLength(line) + 1

(***************************************************************************)
ProcessLine ==
    /\ pc = "loop"
    /\ idx <= NumLines(diff)
    /\ LET line == LineAt(diff, idx)
           \* "Check global character limit"
           hit == GlobalLimitHit(totalChars, globalLimitReached)
           result1 == IF hit THEN Push(result, GLOBAL_SENTINEL) ELSE result
           origin1 == IF hit THEN Push(origin, 0) ELSE origin
           reached1 == globalLimitReached \/ hit
           truncated1 == TruncatedOnHit(wasTruncated, hit)
           isHeader == LineStartsWith(line, DIFF_GIT)
           filePath == extractFilePath(line)
       IN
       /\ limitAt' = IF hit THEN idx ELSE limitAt
       /\ IF reached1 THEN
              \* the branch `if (globalLimitReached) { ...; continue; }`
              /\ stats' = TrackAfterLimit(stats, isHeader, filePath)
              /\ result' = result1
              /\ origin' = origin1
              /\ globalLimitReached' = reached1
              /\ wasTruncated' = truncated1
              /\ UNCHANGED <<currentFileLines, currentFilePath, currentLineLimit,
                             skipCurrentFile, skipUntilNextFile, totalChars>>
          ELSE IF isHeader THEN
              \* a new file header
              /\ currentFilePath' = filePath
              /\ currentFileLines' = 0
              /\ skipUntilNextFile' = FALSE
              /\ IF shouldSkipFile(filePath) THEN
                     /\ skipCurrentFile' = TRUE
                     /\ stats' = RecordSkipped(stats, filePath)
                     /\ UNCHANGED <<currentLineLimit, result, origin, totalChars>>
                 ELSE
                     /\ skipCurrentFile' = FALSE
                     /\ stats' = CountIncluded(stats)
                     /\ currentLineLimit' = getLineLimitForFile(filePath)
                     /\ result' = Push(result, line)
                     /\ origin' = Push(origin, idx)
                     /\ totalChars' = Charged(totalChars, line)
              /\ globalLimitReached' = reached1
              /\ wasTruncated' = truncated1
          ELSE IF skipCurrentFile \/ skipUntilNextFile THEN
              /\ globalLimitReached' = reached1
              /\ wasTruncated' = truncated1
              /\ UNCHANGED <<result, origin, stats, currentFileLines,
                             currentFilePath, currentLineLimit, skipCurrentFile,
                             skipUntilNextFile, totalChars>>
          ELSE
              /\ currentFileLines' = currentFileLines + 1
              /\ IF WithinBudget(currentFileLines + 1, currentLineLimit) THEN
                     /\ result' = Push(result, line)
                     /\ origin' = Push(origin, idx)
                     /\ totalChars' = Charged(totalChars, line)
                     /\ wasTruncated' = truncated1
                     /\ UNCHANGED <<stats, skipUntilNextFile>>
                 ELSE IF AtTruncationPoint(currentFileLines + 1, currentLineLimit) THEN
                     /\ result' = Push(result, TruncMsg(currentLineLimit))
                     /\ origin' = Push(origin, 0)
                     /\ totalChars' = Charged(totalChars, TruncMsg(currentLineLimit))
                     /\ stats' = RecordTruncated(stats, currentFilePath)
                     /\ wasTruncated' = TRUE
                     /\ skipUntilNextFile' = TRUE
                 ELSE
                     /\ wasTruncated' = truncated1
                     /\ UNCHANGED <<result, origin, totalChars, stats,
                                    skipUntilNextFile>>
              /\ globalLimitReached' = reached1
              /\ UNCHANGED <<currentFilePath, currentLineLimit, skipCurrentFile>>
    /\ idx' = idx + 1
    /\ UNCHANGED <<diff, commitMessages, rawStats, pc, ret>>

(***************************************************************************)
(* The return statement of processDiff.  The joined text is kept as its    *)
(* lines together with its length in characters.                           *)
(***************************************************************************)
ReturnResult ==
    /\ pc = "loop"
    /\ idx > NumLines(diff)
    /\ pc' = "done"
    /\ ret' = [diff |-> result,
               diffLength |-> JoinLength(result),
               stats |-> stats,
               commitMessages |-> commitMessages,
               wasTruncated |-> wasTruncated]
    /\ UNCHANGED <<diff, commitMessages, rawStats, idx, result, stats,
                   wasTruncated, currentFileLines, currentFilePath,
                   currentLineLimit, skipCurrentFile, skipUntilNextFile,
                   totalChars, globalLimitReached, origin, limitAt>>

(***************************************************************************)
(* Inputs.                                                                 *)
(***************************************************************************)
MaxFiles == 2

FileShapes ==
    { File(P_README, DEFAULT_LINES_PER_FILE + 1, 1),
      File(P_APP, PRIORITY_LINES_PER_FILE + 1, 1),
      File(P_LOCK, 3, 1),
      File(P_GUIDE, DEFAULT_LINES_PER_FILE, 1),
      File(P_NOTES, 2, 60000),
      File(P_DIST, 2, 1),
      File(P_SVG, DEFAULT_LINES_PER_FILE + 1, 1000),
      File(P_UTIL, 3, 1),
      MalformedFile(DEFAULT_LINES_PER_FILE + 1, 1) }

\* git lists a file once: the headers of a diff are pairwise distinct.
BoundedDiffs ==
    UNION { { d \in [1..n -> FileShapes] :
                \A i, j \in 1..n : i # j => d[i].header # d[j].header }
            : n \in 0..MaxFiles }

\* The end-to-end scenario of the summarizer.
ScenarioDiff ==
    << File(P_APP, 120, 1),
       File(P_LOCK, 5000, 1),
       File(P_README, 10, 1) >>

ScenarioStats == [additions |-> 80, deletions |-> 30]

ScenarioCommits == <<"fix bug", "add feature">>

RawStatsChoices == { [additions |-> 0, deletions |-> 0], ScenarioStats }

CommitChoices == { <<>>, ScenarioCommits }

(***************************************************************************)
(* Response text.  A response text is a sequence of tokens: a character    *)
(* [ch |-> c], or a whole JSON document [doc |-> v] that stands for the    *)
(* characters of its serialization (they begin and end with a character    *)
(* that is neither white space nor a backtick).  A JavaScript value is a   *)
(* record tagged with its type.                                            *)
(***************************************************************************)
\* The backtick, which a TLA+ string cannot hold.
BT == "BT"

Ch(c) == [ch |-> c]

Chars(s) == [i \in 1..Len(s) |-> Ch(s[i])]

Doc(v) == [doc |-> v]

IsDoc(tok) == "doc" \in DOMAIN tok

Undefined == [type |-> "undefined"]

Null == [type |-> "null"]

Str(s) == [type |-> "string", chars |-> s]

Arr(items) == [type |-> "array", items |-> items]

Obj(title, description) ==
    [type |-> "object", title |-> title, description |-> description]

\* The characters matched by \s and removed by String.prototype.trim (those
\* that occur in the inputs), and the white space of the JSON grammar.
WhiteSpace == { " ", "\t", "\n", "\r", "\f" }

JsonWhiteSpace == { " ", "\t", "\n", "\r" }

IsSpace(tok, ws) == IF IsDoc(tok) THEN FALSE ELSE tok.ch \in ws

\* The first index from i on that holds no white space (Len(t) + 1 if none).
RECURSIVE SkipLeft(_, _, _)
SkipLeft(t, i, ws) ==
    IF i > Len(t) THEN i
    ELSE IF IsSpace(t[i], ws) THEN SkipLeft(t, i + 1, ws) ELSE i

\* The last index up to i that holds no white space (0 if none).
RECURSIVE SkipRight(_, _, _)
SkipRight(t, i, ws) ==
    IF i < 1 THEN 0
    ELSE IF IsSpace(t[i], ws) THEN SkipRight(t, i - 1, ws) ELSE i

FENCE == Chars(<<BT,BT,BT>>)

\* The i flag: the letters of the tag in either case.
HasJsonTag(t, i) ==
    /\ Len(t) >= i + 3
    /\ t[i] \in { Ch("j"), Ch("J") }
    /\ t[i + 1] \in { Ch("s"), Ch("S") }
    /\ t[i + 2] \in { Ch("o"), Ch("O") }
    /\ t[i + 3] \in { Ch("n"), Ch("N") }

StripLeadingFence_TagRequired(t) ==
    IF StartsWith(t, FENCE) /\ HasJsonTag(t, 4)
    THEN SubSeq(t, SkipLeft(t, 8, WhiteSpace), Len(t))
    ELSE t

\* The first replace of `cleaned`: three backticks at the start of the text,
\* an optional json tag, and the white space that follows.
StripLeadingFence(t) ==
    IF ~StartsWith(t, FENCE) THEN t
    ELSE SubSeq(t, SkipLeft(t, IF HasJsonTag(t, 4) THEN 8 ELSE 4, WhiteSpace),
                Len(t))

\* The second replace of `cleaned`: the three backticks that end the text
\* but for white space, with the line feed before them if there is one.
StripTrailingFence(t) ==
    LET e == SkipRight(t, Len(t), WhiteSpace) IN
    IF e >= 3 /\ SubSeq(t, e - 2, e) = FENCE
    THEN SubSeq(t, 1, IF e >= 4 /\ t[e - 3] = Ch("\n") THEN e - 4 ELSE e - 3)
    ELSE t

\* String.prototype.trim
Trim(t) ==
    SubSeq(t, SkipLeft(t, 1, WhiteSpace), SkipRight(t, Len(t), WhiteSpace))

\* JSON.parse: one document, with JSON white space around it at most;
\* a SyntaxError otherwise.
JsonParse(t) ==
    LET s == SkipLeft(t, 1, JsonWhiteSpace)
        e == SkipRight(t, Len(t), JsonWhiteSpace)
    IN IF s = e /\ s >= 1 /\ s <= Len(t) /\ IsDoc(t[s])
       THEN [ok |-> TRUE, value |-> t[s].doc]
       ELSE [ok |-> FALSE]

\* parsed.title, parsed.description: a property of an object; undefined on
\* a string, a number or an array.  (On null the access throws.)
Get(parsed, key) == IF parsed.type = "object" THEN parsed[key] ELSE Undefined

Truthy_StringsOnly(v) == v.type = "string" /\ Len(v.chars) > 0

\* !v is false
Truthy(v) ==
    CASE v.type \in { "undefined", "null" } -> FALSE
      [] v.type = "string" -> Len(v.chars) > 0
      [] OTHER -> TRUE

(***************************************************************************)
(* Errors.  An error is [name, message]; `throw new Error(m)` makes        *)
(* Thrown(m).                                                              *)
(***************************************************************************)
Thrown(message) == [name |-> "Error", message |-> message]

Failure(message) == [kind |-> "error", error |-> Thrown(message)]

Rethrown(error) == [kind |-> "error", error |-> error]

AI_NOT_CONFIGURED ==
    <<"A","I"," ","p","r","o","v","i","d","e","r"," ","i","s"," ","n","o",
      "t"," ","c","o","n","f","i","g","u","r","e","d","."," ","P","l","e",
      "a","s","e"," ","s","e","t"," ","y","o","u","r"," ","p","r","o","v",
      "i","d","e","r",","," ","A","P","I"," ","k","e","y",","," ","a","n",
      "d"," ","m","o","d","e","l"," ","i","n"," ","t","h","e"," ","e","x",
      "t","e","n","s","i","o","n"," ","s","e","t","t","i","n","g","s",".">>

GEMINI_NOT_CONFIGURED ==
    <<"G","e","m","i","n","i"," ","A","P","I"," ","k","e","y"," ","i","s",
      " ","n","o","t"," ","c","o","n","f","i","g","u","r","e","d","."," ",
      "P","l","e","a","s","e"," ","s","e","t"," ","i","t"," ","i","n"," ",
      "t","h","e"," ","e","x","t","e","n","s","i","o","n"," ","s","e","t",
      "t","i","n","g","s",".">>

AI_NO_CONTENT ==
    <<"N","o"," ","c","o","n","t","e","n","t"," ","i","n"," ","A","I"," ",
      "r","e","s","p","o","n","s","e">>

AI_INVALID_FORMAT ==
    <<"I","n","v","a","l","i","d"," ","r","e","s","p","o","n","s","e"," ",
      "f","o","r","m","a","t"," ","f","r","o","m"," ","A","I">>

AI_PARSE_FAILED ==
    <<"F","a","i","l","e","d"," ","t","o"," ","p","a","r","s","e"," ","A",
      "I"," ","r","e","s","p","o","n","s","e"," ","a","s"," ","J","S","O",
      "N">>

GEMINI_NO_CONTENT ==
    <<"N","o"," ","c","o","n","t","e","n","t"," ","i","n"," ","G","e","m",
      "i","n","i"," ","r","e","s","p","o","n","s","e">>

GEMINI_INVALID_FORMAT ==
    <<"I","n","v","a","l","i","d"," ","r","e","s","p","o","n","s","e"," ",
      "f","o","r","m","a","t"," ","f","r","o","m"," ","G","e","m","i","n",
      "i">>

GEMINI_PARSE_FAILED ==
    <<"F","a","i","l","e","d"," ","t","o"," ","p","a","r","s","e"," ","G",
      "e","m","i","n","i"," ","r","e","s","p","o","n","s","e"," ","a","s",
      " ","J","S","O","N">>

GEMINI_INVALID_KEY ==
    <<"I","n","v","a","l","i","d"," ","G","e","m","i","n","i"," ","A","P",
      "I"," ","k","e","y","."," ","P","l","e","a","s","e"," ","c","h","e",
      "c","k"," ","y","o","u","r"," ","s","e","t","t","i","n","g","s",".">>

GEMINI_API_ERROR ==
    <<"G","e","m","i","n","i"," ","A","P","I"," ","e","r","r","o","r",":",
      " ">>

DASH ==
    <<" ","-"," ">>

API_KEY_MARKER ==
    <<"A","P","I","_","K","E","Y">>

(***************************************************************************)
(* The content generator.  The repository holds two generations of it:     *)
(* AIService (provider, API key and model identifier, the call made by     *)
(* generateText) and the earlier GeminiService (an API key only, the call  *)
(* made by fetch).  `service` tells which one the extension was built      *)
(* with; GeminiService has neither provider nor model identifier, and      *)
(* these fields then keep the values of its fixed endpoint.                *)
(*                                                                         *)
(* generatePrContent runs without suspension from its entry to the await   *)
(* of the backend call, and from the backend's answer to its return.       *)
(***************************************************************************)
VARIABLES
    service,                  \* "ai" | "gemini"
    provider, apiKey, modelId,\* fields of the service object
    genPc,                    \* "idle" | "awaiting" | "returned" | "failed"
    genCall,                  \* the backend call in flight or last made
    genCalls,                 \* backend calls started by the current request
    genOutcome,               \* what the current request returned or threw
    requests,                 \* requests started so far
    startedWith,              \* history: the descriptor at the entry of the
                              \* current request
    genAnswer,                \* history: what the backend answered to the
                              \* current request
    genArgs                   \* history: the arguments of the current request

VARIABLE
    first                     \* history: the first request that was answered

NoFirst == [none |-> TRUE]

genVars == <<service, provider, apiKey, modelId, genPc, genCall, genCalls,
             genOutcome, requests, startedWith, genAnswer, genArgs>>

MaxRequests == 2

Providers == { "google", "openai", "anthropic" }

\* API keys and model identifiers, as texts.
Keys == { <<>>, <<"k","1">>, <<"k","2">> }

ModelIds == { <<>>, <<"m","1">> }

GEMINI_PROVIDER == "google"

GEMINI_MODEL ==
    <<"g","e","m","i","n","i","-","2",".","5","-","f","l","a","s","h">>

NoCall == [made |-> FALSE]

NoOutcome == [kind |-> "none"]

NoAnswer == [none |-> TRUE]

NoDescriptor == [provider |-> "", apiKey |-> <<>>, modelId |-> <<>>]

Descriptor == [provider |-> provider, apiKey |-> apiKey, modelId |-> modelId]

AiIsConfigured_KeyOnly(key, model) == Len(key) > 0

\* AIService.isConfigured
AiIsConfigured(key, model) == Len(key) > 0 /\ Len(model) > 0

\* GeminiService.isConfigured
GeminiIsConfigured(key) == Len(key) > 0

IsConfigured ==
    IF service = "ai" THEN AiIsConfigured(apiKey, modelId)
    ELSE GeminiIsConfigured(apiKey)

createModel_FixedProvider(p, k, m) ==
    [provider |-> GEMINI_PROVIDER, apiKey |-> k, modelId |-> m]

\* AIService.createModel: the provider's model for the fields of the call
\* (GeminiService: the endpoint and the key header of fetch).
createModel(p, k, m) == [provider |-> p, apiKey |-> k, modelId |-> m]

Reconfigure_Tearing(p, k, m) ==
    /\ service = "ai"
    /\ provider' = p
    /\ apiKey' = k
    /\ modelId' = m
    /\ genCall' = IF genCall.made /\ genPc = "awaiting"
                  THEN [genCall EXCEPT !.model = createModel(p, k, m)]
                  ELSE genCall
    /\ UNCHANGED <<service, genPc, genCalls, genOutcome, requests,
                   startedWith, genAnswer, genArgs>>

\* AIService.reconfigure
Reconfigure(p, k, m) ==
    /\ service = "ai"
    /\ provider' = p
    /\ apiKey' = k
    /\ modelId' = m
    /\ UNCHANGED <<service, genPc, genCall, genCalls, genOutcome, requests,
                   startedWith, genAnswer, genArgs>>

\* GeminiService.setApiKey
SetApiKey(k) ==
    /\ service = "gemini"
    /\ apiKey' = k
    /\ UNCHANGED <<service, provider, modelId, genPc, genCall, genCalls,
                   genOutcome, requests, startedWith, genAnswer, genArgs>>

(***************************************************************************)
(* The prompt.  A prompt is the sequence of the lines of the template      *)
(* literal, each a Line with no filler.                                    *)
(***************************************************************************)
SYSTEM_FRAMING ==
    <<"Y","o","u"," ","a","r","e"," ","a"," ","h","e","l","p","f","u","l",
      " ","a","s","s","i","s","t","a","n","t"," ","t","h","a","t"," ","g",
      "e","n","e","r","a","t","e","s"," ","G","i","t","H","u","b"," ","P",
      "u","l","l"," ","R","e","q","u","e","s","t"," ","t","i","t","l","e",
      "s"," ","a","n","d"," ","d","e","s","c","r","i","p","t","i","o","n",
      "s",".">>

TITLE_INSTRUCTIONS ==
    <<"T","i","t","l","e"," ","I","n","s","t","r","u","c","t","i","o","n",
      "s",":"," ">>

DESCRIPTION_INSTRUCTIONS ==
    <<"D","e","s","c","r","i","p","t","i","o","n"," ","I","n","s","t","r",
      "u","c","t","i","o","n","s",":"," ">>

BRANCH ==
    <<"B","r","a","n","c","h",":"," ">>

RECENT_COMMITS ==
    <<"R","e","c","e","n","t"," ","C","o","m","m","i","t","s",":">>

BULLET ==
    <<"-"," ">>

DIFF_STATISTICS ==
    <<"D","i","f","f"," ","S","t","a","t","i","s","t","i","c","s",":">>

FILES_CHANGED ==
    <<"-"," ","F","i","l","e","s"," ","c","h","a","n","g","e","d",":"," ">>

LINES_ADDED ==
    <<"-"," ","L","i","n","e","s"," ","a","d","d","e","d",":"," ","+">>

LINES_DELETED ==
    <<"-"," ","L","i","n","e","s"," ","d","e","l","e","t","e","d",":"," ",
      "-">>

SKIPPED_NOISE ==
    <<"-"," ","S","k","i","p","p","e","d"," ","(","n","o","i","s","e",")",
      ":"," ">>

TRUNCATED ==
    <<"-"," ","T","r","u","n","c","a","t","e","d",":"," ">>

FILES_OPEN ==
    <<" ","f","i","l","e","s"," ","(">>

COMMA ==
    <<","," ">>

ELLIPSIS ==
    <<".",".",".">>

TASK_INSTRUCTION ==
    <<"B","a","s","e","d"," ","o","n"," ","t","h","e"," ","f","o","l","l",
      "o","w","i","n","g"," ","g","i","t"," ","d","i","f","f",","," ","g",
      "e","n","e","r","a","t","e"," ","a"," ","P","R"," ","t","i","t","l",
      "e"," ","a","n","d"," ","d","e","s","c","r","i","p","t","i","o","n",
      "."," ","T","h","e"," ","t","i","t","l","e"," ","s","h","o","u","l",
      "d"," ","b","e"," ","c","o","n","c","i","s","e"," ","a","n","d"," ",
      "d","e","s","c","r","i","p","t","i","v","e","."," ","B","o","t","h",
      " ","t","h","e"," ","t","i","t","l","e"," ","a","n","d"," ","d","e",
      "s","c","r","i","p","t","i","o","n"," ","s","h","o","u","l","d"," ",
      "f","o","l","l","o","w"," ","t","h","e","i","r"," ","r","e","s","p",
      "e","c","t","i","v","e"," ","t","e","m","p","l","a","t","e"," ","i",
      "n","s","t","r","u","c","t","i","o","n","s"," ","p","r","o","v","i",
      "d","e","d",".">>

USE_BRANCH ==
    <<"U","s","e"," ","t","h","e"," ","b","r","a","n","c","h"," ","n","a",
      "m","e"," ","a","n","d"," ","c","o","m","m","i","t"," ","m","e","s",
      "s","a","g","e","s"," ","t","o"," ","u","n","d","e","r","s","t","a",
      "n","d"," ","t","h","e"," ","i","n","t","e","n","t"," ","o","f"," ",
      "c","h","a","n","g","e","s",".">>

DIFF_FENCE ==
    <<BT,BT,BT,"d","i","f","f">>

RESPOND_ONLY ==
    <<"R","e","s","p","o","n","d"," ","O","N","L","Y"," ","w","i","t","h",
      " ","v","a","l","i","d"," ","J","S","O","N"," ","i","n"," ","t","h",
      "i","s"," ","e","x","a","c","t"," ","f","o","r","m","a","t"," ","(",
      "n","o"," ","m","a","r","k","d","o","w","n",","," ","n","o"," ","c",
      "o","d","e"," ","b","l","o","c","k","s",","," ","j","u","s","t"," ",
      "r","a","w"," ","J","S","O","N",")",":">>

FORMAT_TITLE ==
    <<" "," ","\"","t","i","t","l","e","\"",":"," ","\"","y","o","u","r",
      " ","g","e","n","e","r","a","t","e","d"," ","t","i","t","l","e"," ",
      "h","e","r","e","\"",",">>

FORMAT_DESCRIPTION ==
    <<" "," ","\"","d","e","s","c","r","i","p","t","i","o","n","\"",":"," ",
      "\"","y","o","u","r"," ","g","e","n","e","r","a","t","e","d"," ","d",
      "e","s","c","r","i","p","t","i","o","n"," ","h","e","r","e"," ","(",
      "u","s","e"," ","\\","n"," ","f","o","r"," ","n","e","w","l","i","n",
      "e","s",")","\"">>

PREVIEW_FILES == 5

Text(chars) == Line(chars, 0)

Blank == Text(<<>>)

\* names.slice(0, k).join(", ")
RECURSIVE JoinNames(_, _)
JoinNames(names, k) ==
    IF k = 0 THEN <<>>
    ELSE IF k = 1 THEN names[1]
    ELSE JoinNames(names, k - 1) \o COMMA \o names[k]

\* The count of a file list and the preview of its first names.
Preview(names) ==
    Digits(Len(names)) \o FILES_OPEN
    \o JoinNames(names, IF Len(names) > PREVIEW_FILES THEN PREVIEW_FILES
                        ELSE Len(names))
    \o (IF Len(names) > PREVIEW_FILES THEN ELLIPSIS ELSE <<>>) \o <<")">>

branchInfo(branchName) ==
    IF branchName # <<>> THEN BRANCH \o branchName ELSE <<>>

Bullets(messages) ==
    [i \in 1..Len(messages) |-> Text(BULLET \o messages[i])]

commitsSection_HeaderAlways(messages) ==
    <<Text(RECENT_COMMITS)>> \o Bullets(messages)

\* The lines of commitsSection: the empty string is one empty line.
commitsSection(messages) ==
    IF Len(messages) > 0
    THEN <<Text(RECENT_COMMITS)>> \o Bullets(messages)
    ELSE <<Blank>>

statsSection(st) ==
    <<Text(DIFF_STATISTICS),
      Text(FILES_CHANGED \o Digits(st.filesChanged)),
      Text(LINES_ADDED \o Digits(st.linesAdded)),
      Text(LINES_DELETED \o Digits(st.linesDeleted))>>
    \o (IF Len(st.filesSkipped) > 0
        THEN <<Text(SKIPPED_NOISE \o Preview(st.filesSkipped))>> ELSE <<>>)
    \o (IF Len(st.filesTruncated) > 0
        THEN <<Text(TRUNCATED \o Preview(st.filesTruncated))>> ELSE <<>>)

\* userPrompt, from the title instructions to the closing brace.
userPrompt(args) ==
    <<Text(TITLE_INSTRUCTIONS \o args.titleTemplate),
      Text(DESCRIPTION_INSTRUCTIONS \o args.descriptionTemplate),
      Blank,
      Text(branchInfo(args.branchName)),
      Blank>>
    \o commitsSection(args.diffResult.commitMessages)
    \o <<Blank>>
    \o statsSection(args.diffResult.stats)
    \o <<Blank,
         Text(TASK_INSTRUCTION),
         Text(IF args.branchName # <<>> THEN USE_BRANCH ELSE <<>>),
         Blank,
         Text(DIFF_FENCE)>>
    \o args.diffResult.diff
    \o <<Text(<<BT,BT,BT>>),
         Blank,
         Text(RESPOND_ONLY),
         Text(<<"{">>),
         Text(FORMAT_TITLE),
         Text(FORMAT_DESCRIPTION),
         Text(<<"}">>)>>

systemPrompt_ByProvider ==
    Text(IF provider = GEMINI_PROVIDER THEN SYSTEM_FRAMING ELSE <<>>)

systemPrompt == Text(SYSTEM_FRAMING)

\* What the backend is given: AIService passes the framing as `system`,
\* GeminiService writes it at the head of its one prompt.
Prompts(svc, args) ==
    IF svc = "ai"
    THEN [system |-> <<systemPrompt>>, prompt |-> userPrompt(args)]
    ELSE [system |-> <<>>,
          prompt |-> <<systemPrompt, Blank>> \o userPrompt(args)]

TITLE_TEMPLATE ==
    <<"S","h","o","r","t"," ","t","i","t","l","e">>

DESCRIPTION_TEMPLATE ==
    <<"U","s","e"," ","b","u","l","l","e","t","s">>

BRANCH_NAME ==
    <<"f","i","x","/","c","a","c","h","e">>

COMMIT_1 ==
    <<"a","1","b","2","c","3","d"," ","f","i","x"," ","b","u","g">>

COMMIT_2 ==
    <<"e","4","f","5","a","6","b"," ","a","d","d"," ","f","e","a","t","u",
      "r","e">>

\* Results of getDiff: of an empty diff, of one file without commits, and
\* of three files (two skipped, one truncated) with two commits.
DiffResults ==
    { [diff |-> <<Blank>>, diffLength |-> 0,
       stats |-> [filesChanged |-> 0, linesAdded |-> 0, linesDeleted |-> 0,
                  filesSkipped |-> <<>>, filesTruncated |-> <<>>],
       commitMessages |-> <<>>, wasTruncated |-> FALSE],
      [diff |-> <<HeaderLine(P_README), ContentLine(1)>>,
       diffLength |-> JoinLength(<<HeaderLine(P_README), ContentLine(1)>>),
       stats |-> [filesChanged |-> 1, linesAdded |-> 1, linesDeleted |-> 0,
                  filesSkipped |-> <<>>, filesTruncated |-> <<>>],
       commitMessages |-> <<>>, wasTruncated |-> FALSE],
      [diff |-> <<HeaderLine(P_APP), ContentLine(1),
                  TruncMsg(PRIORITY_LINES_PER_FILE)>>,
       diffLength |-> JoinLength(<<HeaderLine(P_APP), ContentLine(1),
                                   TruncMsg(PRIORITY_LINES_PER_FILE)>>),
       stats |-> [filesChanged |-> 1, linesAdded |-> 80, linesDeleted |-> 30,
                  filesSkipped |-> <<P_LOCK, P_DIST>>,
                  filesTruncated |-> <<P_APP>>],
       commitMessages |-> <<COMMIT_1, COMMIT_2>>, wasTruncated |-> TRUE] }

PromptArgs ==
    [diffResult : DiffResults, titleTemplate : { TITLE_TEMPLATE },
     descriptionTemplate : { DESCRIPTION_TEMPLATE },
     branchName : { <<>>, BRANCH_NAME }]

NoArgs == [none |-> TRUE]

\* generatePrContent from its entry to the await of the backend call:
\* the configuration check, the prompt, then createModel / fetch with the
\* fields as they are now.
GenerateStart(args) ==
    /\ genPc \in { "idle", "returned", "failed" }
    /\ requests < MaxRequests
    /\ requests' = requests + 1
    /\ startedWith' = Descriptor
    /\ genArgs' = args
    /\ genAnswer' = NoAnswer
    /\ IF ~IsConfigured THEN
           /\ genPc' = "failed"
           /\ genOutcome' = Failure(IF service = "ai" THEN AI_NOT_CONFIGURED
                                    ELSE GEMINI_NOT_CONFIGURED)
           /\ genCalls' = 0
           /\ UNCHANGED genCall
       ELSE
           /\ genPc' = "awaiting"
           /\ genOutcome' = NoOutcome
           /\ genCalls' = 1
           /\ genCall' = [made |-> TRUE,
                          model |-> createModel(provider, apiKey, modelId),
                          system |-> Prompts(service, args).system,
                          prompt |-> Prompts(service, args).prompt]
    /\ UNCHANGED <<service, provider, apiKey, modelId>>

NULL_ACCESS_MESSAGE ==
    <<"C","a","n","n","o","t"," ","r","e","a","d"," ","p","r","o","p","e",
      "r","t","i","e","s"," ","o","f"," ","n","u","l","l"," ","(","r","e",
      "a","d","i","n","g"," ","'","t","i","t","l","e","'",")">>

FETCH_FAILED ==
    <<"f","e","t","c","h"," ","f","a","i","l","e","d">>

UNEXPECTED_TOKEN ==
    <<"U","n","e","x","p","e","c","t","e","d"," ","t","o","k","e","n">>

BODY_API_KEY ==
    <<"A","P","I","_","K","E","Y","_","I","N","V","A","L","I","D">>

BODY_QUOTA ==
    <<"q","u","o","t","a">>

TITLE_1 ==
    <<"A","d","d"," ","c","a","c","h","e">>

TITLE_2 ==
    <<"F","i","x">>

DESCRIPTION_1 ==
    <<"#","#"," ","S","u","m","m","a","r","y">>

DESCRIPTION_2 ==
    <<"p","a","t","h"," ","C",":","\\","\\","t","m","p">>

OPEN_FENCE ==
    <<BT,BT,BT,"\n">>

OPEN_JSON_FENCE ==
    <<BT,BT,BT,"j","s","o","n","\n">>

CLOSE_FENCE ==
    <<"\n",BT,BT,BT>>

(***************************************************************************)
(* What the backend answers.                                               *)
(***************************************************************************)
BAD_REQUEST == 400

\* The TypeError of a property access on null.
NullAccess == [name |-> "TypeError", message |-> NULL_ACCESS_MESSAGE]

FieldValues(vs) == { Undefined, Null, Str(<<>>), Arr(<<>>) } \cup { Str(v) : v \in vs }

Docs ==
    { Null, Arr(<<>>), Str(TITLE_1) }
    \cup { Obj(t, d) : t \in FieldValues({ TITLE_1, TITLE_2 }),
                       d \in FieldValues({ DESCRIPTION_1, DESCRIPTION_2 }) }

Wrap(open, doc, close) == Chars(open) \o <<Doc(doc)>> \o Chars(close)

GoodDoc == Obj(Str(TITLE_1), Str(DESCRIPTION_1))

\* Every document bare, in a plain fence and in a json fence; one document
\* in other wrappings; texts without a document.
Texts ==
    { Wrap(<<>>, d, <<>>) : d \in Docs }
    \cup { Wrap(o, d, CLOSE_FENCE) :
             o \in { OPEN_FENCE, OPEN_JSON_FENCE }, d \in Docs }
    \cup { Wrap(<<BT,BT,BT,"J","S","O","N","\n">>, GoodDoc,
                <<"\n",BT,BT,BT,"\n">>),
           Wrap(<<BT,BT,BT,"j","s","o","n">>, GoodDoc, <<BT,BT,BT>>),
           Wrap(<<BT,BT,BT,"j","s","\n">>, GoodDoc, CLOSE_FENCE),
           Wrap(<<" ">>, GoodDoc, <<"\n">>),
           Wrap(<<"\f">>, GoodDoc, <<>>),
           Wrap(<<"\n">> \o OPEN_JSON_FENCE, GoodDoc, CLOSE_FENCE),
           Wrap(<<"H","i",":","\n">> \o OPEN_JSON_FENCE, GoodDoc, CLOSE_FENCE),
           Wrap(OPEN_JSON_FENCE, GoodDoc, <<>>),
           Wrap(<<>>, GoodDoc, CLOSE_FENCE),
           Chars(OPEN_FENCE \o <<BT,BT,BT>>),
           Chars(<<"S","o","r","r","y">>),
           <<>> }

API_KEY_NOT_VALID ==
    <<"A","P","I"," ","k","e","y"," ","n","o","t"," ","v","a","l","i","d">>

\* What generateText throws is made by the provider library: for a failed
\* HTTP call an error that holds the status and the body, under a message
\* of the library's choice.
AiErrors ==
    { [name |-> "AI_APICallError", message |-> m, statusCode |-> st,
       responseBody |-> BODY_API_KEY] :
          m \in { API_KEY_NOT_VALID, BODY_API_KEY }, st \in { BAD_REQUEST, 500 } }
    \cup { [name |-> "SyntaxError", message |-> UNEXPECTED_TOKEN] }

\* fetch rejects; response.json() throws on a body that is not JSON.
GeminiErrors ==
    { [name |-> "TypeError", message |-> FETCH_FAILED],
      [name |-> "SyntaxError", message |-> UNEXPECTED_TOKEN] }

AiAnswers ==
    { [threw |-> TRUE, error |-> e] : e \in AiErrors }
    \cup { [threw |-> FALSE, text |-> t] : t \in Texts }

GeminiAnswers ==
    { [threw |-> TRUE, error |-> e] : e \in GeminiErrors }
    \cup { [threw |-> FALSE, ok |-> FALSE, status |-> st, body |-> b] :
             st \in { BAD_REQUEST, 500 },
             b \in { BODY_API_KEY, BODY_QUOTA, <<>> } }
    \cup { [threw |-> FALSE, ok |-> TRUE, text |-> t] : t \in Texts }

\* catch (error): a SyntaxError becomes the parse failure, anything else is
\* thrown on as it is.
Catch(error, parseFailed) ==
    IF error.name = "SyntaxError" THEN Failure(parseFailed)
    ELSE Rethrown(error)

\* From JSON.parse to the return or the throw.
ParseAndValidate(cleaned, parseFailed, invalidFormat) ==
    LET parsed == JsonParse(cleaned) IN
    IF ~parsed.ok THEN Failure(parseFailed)
    ELSE IF parsed.value = Null THEN Catch(NullAccess, parseFailed)
    ELSE IF \/ ~Truthy(Get(parsed.value, "title"))
            \/ ~Truthy(Get(parsed.value, "description"))
         THEN Failure(invalidFormat)
    ELSE [kind |-> "ok", title |-> Get(parsed.value, "title"),
          description |-> Get(parsed.value, "description")]

\* AIService.generatePrContent after `await generateText(...)`.
AiHandle(answer) ==
    IF answer.threw THEN Catch(answer.error, AI_PARSE_FAILED)
    ELSE IF answer.text = <<>> THEN Failure(AI_NO_CONTENT)
    ELSE ParseAndValidate(
             Trim(StripTrailingFence(StripLeadingFence(answer.text))),
             AI_PARSE_FAILED, AI_INVALID_FORMAT)

IsInvalidKey_AnyStatus(status, errorText) == Contains(errorText, API_KEY_MARKER)

\* response.status === 400 && errorText.includes("API_KEY")
IsInvalidKey(status, errorText) ==
    status = BAD_REQUEST /\ Contains(errorText, API_KEY_MARKER)

\* GeminiService.generatePrContent after `await fetch(...)`.
GeminiHandle(answer) ==
    IF answer.threw THEN Catch(answer.error, GEMINI_PARSE_FAILED)
    ELSE IF ~answer.ok THEN
        IF IsInvalidKey(answer.status, answer.body)
        THEN Failure(GEMINI_INVALID_KEY)
        ELSE Failure(GEMINI_API_ERROR \o Digits(answer.status) \o DASH
                     \o answer.body)
    ELSE IF answer.text = <<>> THEN Failure(GEMINI_NO_CONTENT)
    ELSE ParseAndValidate(answer.text, GEMINI_PARSE_FAILED,
                          GEMINI_INVALID_FORMAT)

\* The backend answers and generatePrContent runs to its return or throw.
BackendAnswers(answer) ==
    /\ genPc = "awaiting"
    /\ answer \in (IF service = "ai" THEN AiAnswers ELSE GeminiAnswers)
    /\ genAnswer' = answer
    /\ genOutcome' = IF service = "ai" THEN AiHandle(answer)
                     ELSE GeminiHandle(answer)
    /\ genPc' = IF genOutcome'.kind = "ok" THEN "returned" ELSE "failed"
    /\ UNCHANGED <<service, provider, apiKey, modelId, genCall, genCalls,
                   requests, startedWith, genArgs>>

(***************************************************************************)
(* The handlers of the extension: createPr, regenerateContent, the         *)
(* description panel's _regenerateDescription and the branch-publish       *)
(* listener.  A handler runs from one await to the next in one step; the   *)
(* step of an external command chooses how the command ends.               *)
(***************************************************************************)
VARIABLES
    handler,                  \* the handler that runs or ran last
    trigger,                  \* "command" | "panel" | "publish"
    flowPc,                   \* the await the handler is suspended at
    cliLog,                   \* history: the commands the handler has run
    shown,                    \* history: the messages the handler has shown
    pr,                       \* the pull request of the branch on GitHub
    promptOnBranchPublish,    \* the setting githubPrHelper.promptOnBranchPublish
    local,                    \* the handler's local variables
    caught,                   \* the error the handler's catch block received
    tree,                     \* PrTreeProvider._prDetails
    remoteRef                 \* whether origin/<base> names a commit in the
                              \* repository

flowVars == <<handler, trigger, flowPc, cliLog, shown, pr,
              promptOnBranchPublish, local, caught, tree, remoteRef>>

UNTITLED ==
    <<"U","n","t","i","t","l","e","d">>

PENDING_GENERATION ==
    <<"P","e","n","d","i","n","g"," ","g","e","n","e","r","a","t","i","o",
      "n",".",".",".">>

TRUNCATION_WARNING ==
    <<"S","o","m","e"," ","f","i","l","e","s"," ","w","e","r","e"," ","t",
      "r","u","n","c","a","t","e","d","."," ","A","I"," ","d","e","s","c",
      "r","i","p","t","i","o","n"," ","m","a","y"," ","b","e"," ","i","n",
      "c","o","m","p","l","e","t","e",".">>

KEY_NOT_CONFIGURED ==
    <<"G","e","m","i","n","i"," ","A","P","I"," ","k","e","y"," ","n","o",
      "t"," ","c","o","n","f","i","g","u","r","e","d","."," ","C","o","n",
      "f","i","g","u","r","e"," ","i","t"," ","t","o"," ","g","e","n","e",
      "r","a","t","e"," ","P","R"," ","c","o","n","t","e","n","t",".">>

DRAFT_PR_CREATED ==
    <<"D","r","a","f","t"," ","P","R"," ","c","r","e","a","t","e","d","!">>

DESCRIPTION_SAVED ==
    <<"D","e","s","c","r","i","p","t","i","o","n"," ","s","a","v","e","d","!">>

CONTENT_REGENERATED ==
    <<"C","o","n","t","e","n","t"," ","r","e","g","e","n","e","r","a","t",
      "e","d","!">>

DETAILS_NOT_RETRIEVED ==
    <<"P","R"," ","w","a","s"," ","c","r","e","a","t","e","d"," ","b","u",
      "t"," ","c","o","u","l","d"," ","n","o","t"," ","r","e","t","r","i",
      "e","v","e"," ","d","e","t","a","i","l","s">>

COMMAND_FAILED ==
    <<"C","o","m","m","a","n","d"," ","f","a","i","l","e","d">>

WARNING_PREFIX ==
    <<"w","a","r","n","i","n","g",":">>

AT_ME ==
    <<"@","m","e">>

LOGIN ==
    <<"o","c","t","o","c","a","t">>

STDERR_FATAL ==
    <<"f","a","t","a","l",":"," ","b","a","d"," ","r","e","v","i","s","i",
      "o","n">>

STDERR_WARNING ==
    <<"W","a","r","n","i","n","g",":"," ","1"," ","u","n","c","o","m","m",
      "i","t","t","e","d"," ","c","h","a","n","g","e">>

NOT_A_FUNCTION ==
    <<"a","r","g",".","r","e","p","l","a","c","e"," ","i","s"," ","n","o",
      "t"," ","a"," ","f","u","n","c","t","i","o","n">>

REGENERATING ==
    <<"r","e","g","e","n","e","r","a","t","i","n","g">>

UPPER ==
    <<"A","B","C","D","E","F","G","H","I","J","K","L","M","N","O","P","Q",
      "R","S","T","U","V","W","X","Y","Z">>

LOWER ==
    <<"a","b","c","d","e","f","g","h","i","j","k","l","m","n","o","p","q",
      "r","s","t","u","v","w","x","y","z">>

BASE_BRANCH == "main"

\* The commands, by the text GitHubCliService hands to execute.
GH_API_USER == "gh api user --jq .login"

GH_PR_VIEW_NUMBER == "gh pr view --json number"

GH_PR_VIEW_FIELDS == "gh pr view --json fields"

GH_PR_CREATE == "gh pr create"

GH_PR_EDIT == "gh pr edit"

GIT_FETCH == "git fetch origin"

GIT_DIFF_REMOTE == "git diff origin/main...HEAD"

GIT_DIFF_LOCAL_Again == GIT_DIFF_REMOTE

GIT_DIFF_LOCAL == "git diff main...HEAD"

GIT_LOG_REMOTE == "git log --oneline origin/main..HEAD"

GIT_LOG_LOCAL == "git log --oneline main..HEAD"

GIT_SHORTSTAT == "git diff --shortstat origin/main...HEAD"

GIT_BRANCH == "git branch --show-current"

NoError == [none |-> TRUE]

NoPr == [exists |-> FALSE, title |-> <<>>, body |-> <<>>, draft |-> FALSE]

NoDetails == [none |-> TRUE]

NoLocals ==
    [currentUser |-> <<>>, gitDiff |-> NoDetails, commits |-> <<>>,
     diffResult |-> NoDetails, branchName |-> <<>>, setting |-> "",
     result |-> "", description |-> <<>>]

\* String.prototype.toLowerCase, on the letters of the messages.
ToLowerCase(t) ==
    [i \in 1..Len(t) |->
        IF \E k \in 1..Len(UPPER) : UPPER[k] = t[i]
        THEN LOWER[CHOOSE k \in 1..Len(UPPER) : UPPER[k] = t[i]]
        ELSE t[i]]

\* arg.replace(/c/g, "\\c")
RECURSIVE EscapeChar(_, _)
EscapeChar(t, c) ==
    IF t = <<>> THEN <<>>
    ELSE (IF Head(t) = c THEN <<"\\", c>> ELSE <<Head(t)>>)
         \o EscapeChar(Tail(t), c)

escapeShellArg_AlsoBackslash(arg) ==
    EscapeChar(EscapeChar(EscapeChar(EscapeChar(arg, "\\"), "\""), "$"), BT)

\* GitHubCliService.escapeShellArg
escapeShellArg(arg) ==
    EscapeChar(EscapeChar(EscapeChar(arg, "\""), "$"), BT)

\* What the shell that exec starts makes of the text between two double
\* quotes: a backslash quotes a following dollar sign, backquote, double
\* quote or backslash, and hides a following newline; any other backslash
\* stands for itself.  A double quote, dollar sign or backquote that is not
\* quoted, and a backslash at the very end, end or expand the word: the
\* command is then not the one that was meant.
RECURSIVE ShellWord(_, _, _)
ShellWord(t, i, acc) ==
    IF i > Len(t) THEN [ok |-> TRUE, text |-> acc]
    ELSE IF t[i] = "\\" THEN
        IF i = Len(t) THEN [ok |-> FALSE]
        ELSE IF t[i + 1] \in { "$", BT, "\"", "\\" }
             THEN ShellWord(t, i + 2, Append(acc, t[i + 1]))
        ELSE IF t[i + 1] = "\n" THEN ShellWord(t, i + 2, acc)
        ELSE ShellWord(t, i + 1, Append(acc, t[i]))
    ELSE IF t[i] \in { "\"", "$", BT } THEN [ok |-> FALSE]
    ELSE ShellWord(t, i + 1, Append(acc, t[i]))

\* The argument a command receives for "${this.escapeShellArg(arg)}".
Quoted(arg) == ShellWord(escapeShellArg(arg), 1, <<>>)

\* showNotification: a message that starts with "warning:" in any case is
\* shown as a warning, any other as an error.
showNotification(message) ==
    [level |-> IF StartsWith(ToLowerCase(message), WARNING_PREFIX)
               THEN "warning" ELSE "error",
     message |-> message]

Warning(message) == [level |-> "warning", message |-> message]

Information(message) == [level |-> "information", message |-> message]

ErrorMessage(message) == [level |-> "error", message |-> message]

PostMessage(type, message) == [level |-> "webview:" \o type, message |-> message]

EXEC_MESSAGE == COMMAND_FAILED \o <<":"," ","1">>

\* How a child process may end: its standard error and the message of the
\* error exec makes.
Outcomes ==
    { [failed |-> FALSE] }
    \cup { [failed |-> TRUE, stderr |-> e, message |-> EXEC_MESSAGE] :
             e \in { STDERR_FATAL, STDERR_WARNING, <<>> } }

\* GitHubCliService.execute: one child process; its failure is thrown as
\* an Error of stderr, or of the message where stderr is empty.
execute(outcome) ==
    IF outcome.failed
    THEN Failure(IF outcome.stderr # <<>> THEN outcome.stderr
                 ELSE IF outcome.message # <<>> THEN outcome.message
                 ELSE COMMAND_FAILED)
    ELSE [kind |-> "ok"]

Ran(command, outcome) ==
    cliLog' = Append(cliLog, [command |-> command, ok |-> ~outcome.failed])

MAX_COMMITS == 20

\* What git diff prints is written as the result processDiff gives for it
\* with the commits and the statistics of the same range.
GitDiffs == DiffResults

\* A log of more commits than getCommitMessages keeps.
LongLog == [i \in 1..(MAX_COMMITS + 2) |-> <<"c"," ">> \o Digits(i)]

\* What git log --oneline prints for the range of the output d of git
\* diff, as the lines output.split("\n") gives: the one empty line of an
\* empty output, a long log, or the two commits around a line of spaces.
GitLog(d) ==
    IF d.diff = <<Blank>> THEN << <<>> >>
    ELSE IF d.commitMessages = <<>> THEN LongLog
    ELSE <<COMMIT_1, <<" "," ">>, COMMIT_2>>

\* line.trim(), as a condition: some character of the line is no white
\* space.
TrimsToText(line) == \E i \in 1..Len(line) : line[i] \notin WhiteSpace

slice_Uncapped(s, from, to) == s

\* Array.prototype.slice(from, to) for from = 0
slice(s, from, to) == SubSeq(s, from + 1, IF Len(s) < to THEN Len(s) ELSE to)

\* output.split("\n").filter((line) => line.trim()).slice(0, 20)
oneline(lines) == slice(SelectSeq(lines, TrimsToText), 0, MAX_COMMITS)

\* getDiffStats: the numbers of the shortstat line, zeros when the command
\* fails.
shortstat(d, failed) ==
    IF failed THEN [additions |-> 0, deletions |-> 0]
    ELSE [additions |-> d.stats.linesAdded, deletions |-> d.stats.linesDeleted]

\* processDiff(diff, commitMessages, rawStats) for the output d of git diff.
processed(d, messages, raw) ==
    [d EXCEPT !.commitMessages = messages,
              !.stats.linesAdded = raw.additions,
              !.stats.linesDeleted = raw.deletions]

truncationWarning_Silent(diffResult) == <<>>

\* if (wasTruncated) showWarningMessage(...)
truncationWarning(diffResult) ==
    IF diffResult.wasTruncated THEN <<Warning(TRUNCATION_WARNING)>> ELSE <<>>

FlowIdle ==
    /\ handler = "none"
    /\ trigger = "none"
    /\ flowPc = "idle"
    /\ cliLog = <<>>
    /\ shown = <<>>
    /\ local = NoLocals
    /\ caught = NoError

\* A handler is entered: its locals are fresh.
Enter(h, t, at, messages, locals) ==
    /\ flowPc \in { "idle", "done" }
    /\ genPc = "idle"
    /\ handler' = h
    /\ trigger' = t
    /\ flowPc' = at
    /\ cliLog' = <<>>
    /\ shown' = messages
    /\ local' = locals
    /\ caught' = NoError
    /\ UNCHANGED <<pr, promptOnBranchPublish, remoteRef, tree, genVars>>

FlowCatch_Silent(error, before) ==
    /\ caught' = error
    /\ shown' = shown \o before
    /\ flowPc' = "done"

\* catch (error) of the handler that runs, after it has shown before.
FlowCatch(error, before) ==
    /\ caught' = error
    /\ shown' = shown \o before \o
                (IF handler \in { "_regenerateDescription", "_saveDescription" }
                 THEN <<ErrorMessage(error.message),
                        PostMessage("error", error.message)>>
                 ELSE <<showNotification(error.message)>>)
    /\ flowPc' = "done"

\* The Create Pull Request command.
StartCreatePr == Enter("createPr", "command", "user", <<>>, NoLocals)

\* The Regenerate command.
StartRegenerateContent ==
    Enter("regenerateContent", "command", "fetch", <<>>, NoLocals)

\* The panel's regenerate button; the panel is opened on the details of
\* the tree.
StartRegenerateDescription ==
    /\ tree # NoDetails
    /\ Enter("_regenerateDescription", "panel", "fetch",
             <<PostMessage("regenerating", <<>>)>>, NoLocals)

\* createPr: await ghService.getCurrentUser(), with "@me" in its place
\* when it fails; then ghService.createPr starts gh pr create.
CurrentUserReturns(outcome) ==
    /\ flowPc = "user"
    /\ Ran(GH_API_USER, outcome)
    /\ local' = [local EXCEPT !.currentUser =
                    IF execute(outcome).kind = "ok" THEN LOGIN ELSE AT_ME]
    /\ flowPc' = "create"
    /\ UNCHANGED <<handler, trigger, shown, pr, promptOnBranchPublish, remoteRef,
                   caught, tree, genVars>>

\* GitHubCliService.createPr: gh pr create with the placeholders; GitHub
\* refuses a second pull request of the branch.
PrCreateReturns(outcome) ==
    /\ flowPc = "create"
    /\ pr.exists => outcome.failed
    /\ Ran(GH_PR_CREATE, outcome)
    /\ IF execute(outcome).kind = "error" THEN
           /\ FlowCatch(execute(outcome).error, <<>>)
           /\ UNCHANGED pr
       ELSE
           /\ pr' = [exists |-> TRUE, title |-> Quoted(UNTITLED).text,
                     body |-> Quoted(PENDING_GENERATION).text, draft |-> TRUE]
           /\ flowPc' = "details"
           /\ UNCHANGED <<shown, caught>>
    /\ UNCHANGED <<handler, trigger, promptOnBranchPublish, remoteRef, local, tree,
                   genVars>>

\* GitHubCliService.createPr after gh pr create: getPrDetails gives null
\* when gh pr view fails, and createPr throws; else the handler goes on to
\* geminiService.isConfigured().
PrDetailsReturns(outcome) ==
    /\ flowPc = "details"
    /\ ~pr.exists => outcome.failed
    /\ Ran(GH_PR_VIEW_FIELDS, outcome)
    /\ IF execute(outcome).kind = "error" THEN
           FlowCatch(Thrown(DETAILS_NOT_RETRIEVED), <<>>)
       ELSE IF IsConfigured THEN
           /\ flowPc' = "fetch"
           /\ UNCHANGED <<shown, caught>>
       ELSE
           /\ shown' = shown \o <<Warning(KEY_NOT_CONFIGURED),
                                  Information(DRAFT_PR_CREATED)>>
           /\ flowPc' = "refresh"
           /\ UNCHANGED caught
    /\ UNCHANGED <<handler, trigger, pr, promptOnBranchPublish, remoteRef, local, tree,
                   genVars>>

\* getDiff: git fetch origin, whose failure is ignored.
FetchReturns(outcome) ==
    /\ flowPc = "fetch"
    /\ Ran(GIT_FETCH, outcome)
    /\ flowPc' = "diffRemote"
    /\ UNCHANGED <<handler, trigger, shown, pr, promptOnBranchPublish, remoteRef, local,
                   caught, tree, genVars>>

\* getDiff: git diff against the remote reference; on its failure the
\* diff against the local one is run.
DiffRemoteReturns(outcome, d) ==
    /\ flowPc = "diffRemote"
    /\ ~remoteRef => outcome.failed
    /\ Ran(GIT_DIFF_REMOTE, outcome)
    /\ IF execute(outcome).kind = "error" THEN
           /\ flowPc' = "diffLocal"
           /\ UNCHANGED local
       ELSE
           /\ local' = [local EXCEPT !.gitDiff = d]
           /\ flowPc' = "logRemote"
    /\ UNCHANGED <<handler, trigger, shown, pr, promptOnBranchPublish, remoteRef,
                   caught, tree, genVars>>

\* getDiff: the diff against the local reference; its failure is thrown.
DiffLocalReturns(outcome, d) ==
    /\ flowPc = "diffLocal"
    /\ Ran(GIT_DIFF_LOCAL, outcome)
    /\ IF execute(outcome).kind = "error" THEN
           /\ FlowCatch(execute(outcome).error, <<>>)
           /\ UNCHANGED local
       ELSE
           /\ local' = [local EXCEPT !.gitDiff = d]
           /\ flowPc' = "logRemote"
           /\ UNCHANGED <<shown, caught>>
    /\ UNCHANGED <<handler, trigger, pr, promptOnBranchPublish, remoteRef, tree,
                   genVars>>

\* getCommitMessages: git log against the remote reference; on its
\* failure the log against the local one is run.
LogRemoteReturns(outcome) ==
    /\ flowPc = "logRemote"
    /\ ~remoteRef => outcome.failed
    /\ Ran(GIT_LOG_REMOTE, outcome)
    /\ IF execute(outcome).kind = "error" THEN
           /\ flowPc' = "logLocal"
           /\ UNCHANGED local
       ELSE
           /\ local' = [local EXCEPT !.commits = oneline(GitLog(local.gitDiff))]
           /\ flowPc' = "stats"
    /\ UNCHANGED <<handler, trigger, shown, pr, promptOnBranchPublish, remoteRef,
                   caught, tree, genVars>>

\* getCommitMessages: the log against the local reference; on its failure
\* there are no commit messages.
LogLocalReturns(outcome) ==
    /\ flowPc = "logLocal"
    /\ Ran(GIT_LOG_LOCAL, outcome)
    /\ local' = [local EXCEPT !.commits =
                    IF execute(outcome).kind = "error" THEN <<>>
                    ELSE oneline(GitLog(local.gitDiff))]
    /\ flowPc' = "stats"
    /\ UNCHANGED <<handler, trigger, shown, pr, promptOnBranchPublish, remoteRef,
                   caught, tree, genVars>>

\* getDiffStats, then processDiff and the return of getDiff; the handler
\* goes on to ghService.getCurrentBranch().
StatsReturns(outcome) ==
    /\ flowPc = "stats"
    /\ ~remoteRef => outcome.failed
    /\ Ran(GIT_SHORTSTAT, outcome)
    /\ local' = [local EXCEPT !.diffResult =
                    processed(local.gitDiff, local.commits,
                              shortstat(local.gitDiff,
                                        execute(outcome).kind = "error"))]
    /\ flowPc' = "branch"
    /\ UNCHANGED <<handler, trigger, shown, pr, promptOnBranchPublish, remoteRef,
                   caught, tree, genVars>>

FlowArgs(name) ==
    [diffResult |-> local.diffResult, titleTemplate |-> TITLE_TEMPLATE,
     descriptionTemplate |-> DESCRIPTION_TEMPLATE, branchName |-> name]

\* getCurrentBranch returns: the truncation warning, then
\* generatePrContent up to its await.
BranchReturns(outcome) ==
    /\ flowPc = "branch"
    /\ Ran(GIT_BRANCH, outcome)
    /\ IF execute(outcome).kind = "error" THEN
           /\ FlowCatch(execute(outcome).error, <<>>)
           /\ UNCHANGED <<local, genVars>>
       ELSE
           /\ local' = [local EXCEPT !.branchName = BRANCH_NAME]
           /\ GenerateStart(FlowArgs(BRANCH_NAME))
           /\ IF genOutcome'.kind = "error" THEN
                  FlowCatch(genOutcome'.error,
                            truncationWarning(local.diffResult))
              ELSE
                  /\ shown' = shown \o truncationWarning(local.diffResult)
                  /\ flowPc' = "generate"
                  /\ UNCHANGED caught
    /\ UNCHANGED <<handler, trigger, pr, promptOnBranchPublish, remoteRef, tree>>

\* GitHubCliService.updatePr up to execute: the arguments of the options
\* that are truthy; escapeShellArg calls arg.replace, which only a text
\* has.
updatePr(title, body) ==
    IF \/ Truthy(title) /\ title.type # "string"
       \/ Truthy(body) /\ body.type # "string"
    THEN [kind |-> "error",
          error |-> [name |-> "TypeError", message |-> NOT_A_FUNCTION]]
    ELSE [kind |-> "ok",
          title |-> IF Truthy(title) THEN <<Quoted(title.chars)>> ELSE <<>>,
          body |-> IF Truthy(body) THEN <<Quoted(body.chars)>> ELSE <<>>]

\* The backend answers: generatePrContent returns or throws, and on its
\* return ghService.updatePr starts gh pr edit.
GenerateReturns(answer) ==
    /\ flowPc = "generate"
    /\ BackendAnswers(answer)
    /\ IF genOutcome'.kind = "error" THEN
           FlowCatch(genOutcome'.error, <<>>)
       ELSE IF updatePr(genOutcome'.title, genOutcome'.description).kind
                   = "error" THEN
           FlowCatch(updatePr(genOutcome'.title,
                              genOutcome'.description).error, <<>>)
       ELSE
           /\ flowPc' = "update"
           /\ UNCHANGED <<shown, caught>>
    /\ UNCHANGED <<handler, trigger, cliLog, pr, promptOnBranchPublish, remoteRef,
                   local, tree>>

\* What GitHub receives for a word of the command line; for a word the
\* shell ended or expanded, some other text.
Received(word) == IF word.ok THEN { word.text } ELSE { <<>>, <<"?">> }

succeeded ==
    IF handler = "createPr" THEN <<Information(DRAFT_PR_CREATED)>>
    ELSE IF handler = "_saveDescription"
    THEN <<Information(DESCRIPTION_SAVED), PostMessage("saved", <<>>)>>
    ELSE <<Information(CONTENT_REGENERATED)>>

\* The options of the updatePr that the handler awaits.
EditOptions ==
    IF handler = "_saveDescription"
    THEN updatePr(Undefined, Str(local.description))
    ELSE updatePr(genOutcome.title, genOutcome.description)

\* The descriptions the panel's save button submits.
Descriptions == { <<>>, DESCRIPTION_1 }

\* DescriptionPanel._saveDescription up to its first await that waits:
\* "saving" is posted and updatePr({ body: description }) either starts
\* gh pr edit or, with no argument to pass, returns; the handler then
\* reports the success and calls onDescriptionChanged, the refresh of the
\* tree.
StartSaveDescription(description) ==
    /\ tree # NoDetails
    /\ IF updatePr(Undefined, Str(description)).body # <<>>
       THEN Enter("_saveDescription", "panel", "update",
                  <<PostMessage("saving", <<>>)>>,
                  [NoLocals EXCEPT !.description = description])
       ELSE Enter("_saveDescription", "panel", "refresh",
                  <<PostMessage("saving", <<>>),
                    Information(DESCRIPTION_SAVED),
                    PostMessage("saved", <<>>)>>,
                  [NoLocals EXCEPT !.description = description])

\* gh pr edit returns: on its failure the handler's catch; else the
\* message of success and the refresh of the tree.
PrEditReturns(outcome) ==
    /\ flowPc = "update"
    /\ ~pr.exists => outcome.failed
    /\ Ran(GH_PR_EDIT, outcome)
    /\ IF execute(outcome).kind = "error" THEN
           /\ FlowCatch(execute(outcome).error, <<>>)
           /\ UNCHANGED pr
       ELSE
           /\ \E t \in IF EditOptions.title = <<>> THEN { pr.title }
                         ELSE Received(EditOptions.title[1]),
                 b \in IF EditOptions.body = <<>> THEN { pr.body }
                         ELSE Received(EditOptions.body[1]) :
                 pr' = [pr EXCEPT !.title = t, !.body = b]
           /\ shown' = shown \o succeeded
           /\ flowPc' = "refresh"
           /\ UNCHANGED caught
    /\ UNCHANGED <<handler, trigger, promptOnBranchPublish, remoteRef, local, tree,
                   genVars>>

\* PrTreeProvider.refresh: getPrDetails, null when gh pr view fails.
RefreshReturns(outcome) ==
    /\ flowPc = "refresh"
    /\ ~pr.exists => outcome.failed
    /\ Ran(GH_PR_VIEW_FIELDS, outcome)
    /\ tree' = IF execute(outcome).kind = "error" THEN NoDetails ELSE pr
    /\ flowPc' = "done"
    /\ UNCHANGED <<handler, trigger, shown, pr, promptOnBranchPublish, remoteRef, local,
                   caught, genVars>>

PublishModes == { "ask", "always", "never" }

CREATE_DRAFT_PR == "Create Draft PR"

NOT_NOW == "Not Now"

DONT_ASK_AGAIN == "Don't Ask Again"

DISMISSED == "undefined"

Question(branch) == [level |-> "question", message |-> branch]

\* onDidPublish up to its first await: nothing for an event without a
\* branch; else the setting is read, and with any setting but "never"
\* ghService.prExists() is called.
DidPublish(branch) ==
    IF branch = <<>>
    THEN Enter("onDidPublish", "publish", "done", <<>>, NoLocals)
    ELSE Enter("onDidPublish", "publish",
               IF promptOnBranchPublish = "never" THEN "done" ELSE "prExists",
               <<>>, [NoLocals EXCEPT !.setting = promptOnBranchPublish])

\* GitHubCliService.prExists: whether gh pr view succeeded.
prExists(outcome) == execute(outcome).kind = "ok"

\* onDidPublish after prExists: return when a pull request exists,
\* createPr() when the setting is "always", else the question.
PrExistsReturns(outcome) ==
    /\ flowPc = "prExists"
    /\ ~pr.exists => outcome.failed
    /\ Ran(GH_PR_VIEW_NUMBER, outcome)
    /\ IF prExists(outcome) THEN
           /\ flowPc' = "done"
           /\ UNCHANGED <<handler, shown>>
       ELSE IF local.setting = "always" THEN
           /\ handler' = "createPr"
           /\ flowPc' = "user"
           /\ UNCHANGED shown
       ELSE
           /\ shown' = Append(shown, Question(BRANCH_NAME))
           /\ flowPc' = "question"
           /\ UNCHANGED handler
    /\ UNCHANGED <<trigger, pr, promptOnBranchPublish, remoteRef, local, caught, tree,
                   genVars>>

\* The user answers the question or dismisses it.
QuestionAnswered(choice) ==
    /\ flowPc = "question"
    /\ local' = [local EXCEPT !.result = choice]
    /\ IF choice = CREATE_DRAFT_PR THEN
           /\ handler' = "createPr"
           /\ flowPc' = "user"
           /\ UNCHANGED promptOnBranchPublish
       ELSE IF choice = DONT_ASK_AGAIN THEN
           /\ promptOnBranchPublish' = "never"
           /\ flowPc' = "done"
           /\ UNCHANGED handler
       ELSE
           /\ flowPc' = "done"
           /\ UNCHANGED <<handler, promptOnBranchPublish>>
    /\ UNCHANGED <<trigger, cliLog, shown, pr, caught, tree, remoteRef,
                   genVars>>

(***************************************************************************)
(* An argument on its way through the shell: createPr and updatePr write   *)
(* "${this.escapeShellArg(arg)}" into the command line, and the shell that *)
(* exec starts reads the word back.                                        *)
(***************************************************************************)
VARIABLES
    shellArg,                 \* the title or body handed to escapeShellArg
    escaped,                  \* what escapeShellArg returned
    parsed,                   \* what the shell made of "escaped"
    shellPc                   \* "idle", "arg", "escaped" or "parsed"

shellVars == <<shellArg, escaped, parsed, shellPc>>

MaxArgLen == 3

ShellAlphabet == { "a", " ", "\"", "$", BT, "\\" }

ShellArgs == UNION { [1..n -> ShellAlphabet] : n \in 0..MaxArgLen }

ShellIdle ==
    /\ shellArg = <<>>
    /\ escaped = <<>>
    /\ parsed = NoDetails
    /\ shellPc = "idle"

\* this.escapeShellArg(options.title), this.escapeShellArg(options.body)
EscapeArg ==
    /\ shellPc = "arg"
    /\ escaped' = escapeShellArg(shellArg)
    /\ shellPc' = "escaped"
    /\ UNCHANGED <<shellArg, parsed>>

\* The shell reads the word between the double quotes of the template.
ShellReads ==
    /\ shellPc = "escaped"
    /\ parsed' = ShellWord(escaped, 1, <<>>)
    /\ shellPc' = "parsed"
    /\ UNCHANGED <<shellArg, escaped>>

(***************************************************************************)
(* PrTreeProvider: refresh() calls that overlap, and the tree getChildren  *)
(* builds.  A refresh awaits gh pr view; the command reads the pull        *)
(* request at some moment and the continuation of the refresh runs at a    *)
(* later one.                                                              *)
(***************************************************************************)
VARIABLES
    isLoading,                \* _isLoading
    treeError,                \* _error: NoError for null
    prDetails,                \* _prDetails: NoDetails for null
    refreshes,                \* the calls of refresh(), in the order of their start
    github,                   \* the pull request of the branch, NoDetails if none
    changes,                  \* how often the pull request was changed
    children,                 \* what getChildren() returned last
    builtFrom                 \* history: the details that tree was built from

treeVars == <<isLoading, treeError, prDetails, refreshes, github, changes,
              children, builtFrom>>

MaxRefreshes == 2

MaxChanges == 1

OPEN == <<"O","P","E","N">>

CLOSED == <<"C","L","O","S","E","D">>

MERGED == <<"M","E","R","G","E","D">>

PrStates == { OPEN, CLOSED, MERGED }

PR_NUMBER == 7

\* PrDetails, of which the tree's status item reads number, state and
\* isDraft.
PullRequests == [number : { PR_NUMBER }, state : PrStates, isDraft : BOOLEAN]

NO_PULL_REQUESTS ==
    <<"n","o"," ","p","u","l","l"," ","r","e","q","u","e","s","t","s"," ","f","o","u","n","d"," ","f","o","r"," ","b","r","a","n","c","h">>

PR_STATUS_DRAFT == <<"p","r","S","t","a","t","u","s","D","r","a","f","t">>

PR_STATUS_OPEN == <<"p","r","S","t","a","t","u","s","O","p","e","n">>

PR_STATUS_MERGED == <<"p","r","S","t","a","t","u","s","M","e","r","g","e","d">>

PR_STATUS_CLOSED == <<"p","r","S","t","a","t","u","s","C","l","o","s","e","d">>

\* type TreeItemContext, the values of a status item
StatusContexts ==
    { PR_STATUS_DRAFT, PR_STATUS_OPEN, PR_STATUS_MERGED, PR_STATUS_CLOSED }

\* String.prototype.toUpperCase, on the letters of the states.
ToUpperCase(t) ==
    [i \in 1..Len(t) |->
        IF \E k \in 1..Len(LOWER) : LOWER[k] = t[i]
        THEN UPPER[CHOOSE k \in 1..Len(LOWER) : LOWER[k] = t[i]]
        ELSE t[i]]

\* pr.isDraft ? "prStatusDraft" : pr.state.toLowerCase(): the type
\* assertion of the source changes no value.
statusContext(details) ==
    IF details.isDraft THEN PR_STATUS_DRAFT ELSE ToLowerCase(details.state)

PrTreeItem(label, contextValue, description) ==
    [label |-> label, contextValue |-> contextValue, description |-> description]

\* PrTreeProvider._buildPrTree: the status item, and the label and context
\* of the items after it.
buildPrTree(details) ==
    << PrTreeItem(IF details.isDraft THEN <<"D","R","A","F","T">>
                  ELSE ToUpperCase(details.state),
                  statusContext(details),
                  <<"#">> \o Digits(details.number)),
       [label |-> "Title", contextValue |-> "prTitle"],
       [label |-> "Description", contextValue |-> "prDescription"],
       [label |-> "Author", contextValue |-> "prAuthor"],
       [label |-> "Reviewers", contextValue |-> "reviewersHeader"],
       [label |-> "Assignees", contextValue |-> "assigneesHeader"],
       [label |-> "Created", contextValue |-> "prCreated"] >>

LoadingItem == [label |-> "Loading...", contextValue |-> "noPr"]

TreeIdle ==
    /\ isLoading = FALSE
    /\ treeError = NoError
    /\ prDetails = NoDetails
    /\ refreshes = <<>>
    /\ github = NoDetails
    /\ changes = 0
    /\ children = <<>>
    /\ builtFrom = NoDetails

\* refresh() up to its await: the flag is set, the error cleared, and
\* getPrDetails has started gh pr view.
RefreshStart ==
    /\ Len(refreshes) < MaxRefreshes
    /\ isLoading' = TRUE
    /\ treeError' = NoError
    /\ refreshes' = Append(refreshes, [at |-> "awaiting"])
    /\ UNCHANGED <<prDetails, github, changes, children, builtFrom>>

\* GitHubCliService.getPrDetails: the details gh pr view printed, and null
\* in the place of every error.
getPrDetails(ran, details) ==
    [kind |-> "ok", details |-> IF ran.kind = "error" THEN NoDetails ELSE details]

\* gh pr view of the refresh r ends: with the details of the pull request
\* as it is now, or with a failure; with a failure that names no pull
\* request when the branch has none.
GhPrViewEnds(r, outcome) ==
    /\ r \in 1..Len(refreshes)
    /\ refreshes[r].at = "awaiting"
    /\ github = NoDetails =>
          outcome.failed /\ outcome.stderr = NO_PULL_REQUESTS
    /\ (github # NoDetails /\ outcome.failed) =>
          outcome.stderr # NO_PULL_REQUESTS
    /\ refreshes' = [refreshes EXCEPT ![r] =
                        [at |-> "answered",
                         result |-> getPrDetails(execute(outcome), github)]]
    /\ UNCHANGED <<isLoading, treeError, prDetails, github, changes, children,
                   builtFrom>>

\* The rest of the refresh r: try, catch and finally.  getPrDetails throws
\* nothing, so the catch block is never entered.
RefreshEnds(r) ==
    /\ r \in 1..Len(refreshes)
    /\ refreshes[r].at = "answered"
    /\ IF refreshes[r].result.kind = "ok" THEN
           /\ prDetails' = refreshes[r].result.details
           /\ UNCHANGED treeError
       ELSE
           /\ treeError' =
                 IF Contains(refreshes[r].result.error.message, NO_PULL_REQUESTS)
                 THEN treeError
                 ELSE refreshes[r].result.error
           /\ prDetails' = NoDetails
    /\ isLoading' = FALSE
    /\ refreshes' = [refreshes EXCEPT ![r] = [@ EXCEPT !.at = "done"]]
    /\ UNCHANGED <<github, changes, children, builtFrom>>

\* The pull request is changed on GitHub: created, closed, merged, marked
\* ready or made a draft.
GithubChanges(to) ==
    /\ changes < MaxChanges
    /\ to # github
    /\ github' = to
    /\ changes' = changes + 1
    /\ UNCHANGED <<isLoading, treeError, prDetails, refreshes, children,
                   builtFrom>>

\* getChildren() for the root of the tree.
getChildren ==
    /\ children' = IF isLoading THEN <<LoadingItem>>
                   ELSE IF prDetails = NoDetails THEN <<>>
                   ELSE buildPrTree(prDetails)
    /\ builtFrom' = IF isLoading THEN NoDetails ELSE prDetails
    /\ UNCHANGED <<isLoading, treeError, prDetails, refreshes, github, changes>>

\* The failures of gh pr view.
ViewOutcomes ==
    { [failed |-> FALSE] }
    \cup { [failed |-> TRUE, stderr |-> e, message |-> EXEC_MESSAGE] :
             e \in { STDERR_FATAL, NO_PULL_REQUESTS } }

(***************************************************************************)
(* Specifications.  Spec runs the diff summarizer over the bounded inputs; *)
(* SpecGen runs the content generator.                                     *)
(***************************************************************************)
vars == <<diffVars, genVars, first, flowVars, shellVars, treeVars>>

\* No handler has run, and the branch has no pull request.
NoFlow ==
    /\ FlowIdle
    /\ pr = NoPr
    /\ promptOnBranchPublish = "ask"
    /\ tree = NoDetails
    /\ remoteRef = TRUE

GeneratorIdle ==
    /\ genPc = "idle"
    /\ genCall = NoCall
    /\ genCalls = 0
    /\ genOutcome = NoOutcome
    /\ requests = 0
    /\ startedWith = NoDescriptor
    /\ genAnswer = NoAnswer
    /\ genArgs = NoArgs
    /\ first = NoFirst

Init ==
    /\ \/ diff \in BoundedDiffs
       \/ diff = ScenarioDiff
    /\ rawStats \in RawStatsChoices
    /\ commitMessages \in CommitChoices
    /\ processDiffEntry
    /\ service = "ai"
    /\ provider = "google"
    /\ apiKey = <<>>
    /\ modelId = <<>>
    /\ GeneratorIdle
    /\ NoFlow
    /\ ShellIdle
    /\ TreeIdle

Next ==
    \/ ProcessLine /\ UNCHANGED <<genVars, first, flowVars, shellVars, treeVars>>
    \/ ReturnResult /\ UNCHANGED <<genVars, first, flowVars, shellVars, treeVars>>

Spec == Init /\ [][Next]_vars

NoDiff ==
    /\ diff = <<>>
    /\ rawStats = [additions |-> 0, deletions |-> 0]
    /\ commitMessages = <<>>
    /\ processDiffEntry

\* SpecGen: requests, reconfigurations and answers in any order, over the
\* arguments of an empty diff and a few answers.
FewArgs == { args \in PromptArgs : args.diffResult.diff = <<Blank>> }

FewTexts == { Wrap(<<>>, GoodDoc, <<>>), Chars(<<"S","o","r","r","y">>) }

FewAnswers ==
    { a \in AiAnswers \cup GeminiAnswers :
        IF a.threw THEN TRUE
        ELSE IF "ok" \in DOMAIN a /\ ~a.ok
             THEN a.status = BAD_REQUEST /\ a.body = BODY_QUOTA
        ELSE a.text \in FewTexts }

InitGen ==
    /\ NoDiff
    /\ \/ /\ service = "ai"
          /\ provider \in Providers
          /\ apiKey \in Keys
          /\ modelId \in ModelIds
       \/ /\ service = "gemini"
          /\ provider = GEMINI_PROVIDER
          /\ apiKey \in Keys
          /\ modelId = GEMINI_MODEL
    /\ GeneratorIdle
    /\ NoFlow
    /\ ShellIdle
    /\ TreeIdle

NextGen ==
    \/ \E p \in Providers, k \in Keys, m \in ModelIds :
          Reconfigure(p, k, m) /\ UNCHANGED <<diffVars, first, flowVars, shellVars, treeVars>>
    \/ \E k \in Keys : SetApiKey(k) /\ UNCHANGED <<diffVars, first, flowVars, shellVars, treeVars>>
    \/ \E args \in FewArgs : GenerateStart(args) /\ UNCHANGED <<diffVars, first, flowVars, shellVars, treeVars>>
    \/ \E answer \in FewAnswers : BackendAnswers(answer) /\ UNCHANGED <<diffVars, first, flowVars, shellVars, treeVars>>

SpecGen == InitGen /\ [][NextGen]_vars

\* SpecCall: the requests of a configured service, over all the arguments
\* and all the answers.
InitCall ==
    /\ NoDiff
    /\ service \in { "ai", "gemini" }
    /\ provider = GEMINI_PROVIDER
    /\ apiKey = <<"k","1">>
    /\ modelId = GEMINI_MODEL
    /\ GeneratorIdle
    /\ NoFlow
    /\ ShellIdle
    /\ TreeIdle

NextCall ==
    \/ \E args \in PromptArgs : GenerateStart(args) /\ UNCHANGED <<diffVars, first, flowVars, shellVars, treeVars>>
    \/ \E answer \in AiAnswers \cup GeminiAnswers :
          BackendAnswers(answer) /\ UNCHANGED <<diffVars, first, flowVars, shellVars, treeVars>>

SpecCall == InitCall /\ [][NextCall]_vars

\* SpecPair: the requests of an AIService that is reconfigured between
\* configured descriptors, with the first answered request remembered.
PairTexts == FewTexts \cup { Wrap(OPEN_JSON_FENCE, GoodDoc, CLOSE_FENCE) }

PairAnswers ==
    { a \in AiAnswers : IF a.threw THEN a.error.name = "SyntaxError"
                        ELSE a.text \in PairTexts }

Remember ==
    first' = IF first # NoFirst THEN first
             ELSE [args |-> genArgs, model |-> genCall.model,
                   system |-> genCall.system, prompt |-> genCall.prompt,
                   answer |-> genAnswer', outcome |-> genOutcome']

PairDescriptors ==
    { [provider |-> "google", apiKey |-> <<"k","1">>, modelId |-> <<"m","1">>],
      [provider |-> "openai", apiKey |-> <<"k","1">>, modelId |-> <<"m","1">>],
      [provider |-> "google", apiKey |-> <<"k","2">>, modelId |-> <<"m","1">>],
      [provider |-> "google", apiKey |-> <<"k","1">>, modelId |-> <<"m","2">>],
      [provider |-> "anthropic", apiKey |-> <<"k","2">>,
       modelId |-> <<"m","2">>] }

InitPair ==
    /\ NoDiff
    /\ service = "ai"
    /\ \E d \in PairDescriptors :
          provider = d.provider /\ apiKey = d.apiKey /\ modelId = d.modelId
    /\ GeneratorIdle
    /\ NoFlow
    /\ ShellIdle
    /\ TreeIdle

NextPair ==
    \/ \E d \in PairDescriptors :
          Reconfigure(d.provider, d.apiKey, d.modelId)
          /\ UNCHANGED <<diffVars, first, flowVars, shellVars, treeVars>>
    \/ \E args \in FewArgs : GenerateStart(args) /\ UNCHANGED <<diffVars, first, flowVars, shellVars, treeVars>>
    \/ \E answer \in PairAnswers :
          BackendAnswers(answer) /\ Remember
          /\ UNCHANGED <<diffVars, flowVars, shellVars, treeVars>>

SpecPair == InitPair /\ [][NextPair]_vars

\* SpecFlow: the handlers of the extension, one at a time, up to the first
\* one that asks for content, with either service, with or without a key.
FlowTexts ==
    { Wrap(<<>>, GoodDoc, <<>>),
      Wrap(<<>>, Obj(Str(TITLE_2), Str(DESCRIPTION_2)), <<>>),
      Wrap(<<>>, Obj(Arr(<<>>), Str(DESCRIPTION_1)), <<>>),
      Chars(<<"S","o","r","r","y">>) }

FlowAnswers ==
    { a \in AiAnswers \cup GeminiAnswers :
        IF a.threw THEN a.error.name # "SyntaxError"
                        => a.error.message \in { FETCH_FAILED, BODY_API_KEY }
        ELSE IF "ok" \in DOMAIN a /\ ~a.ok
             THEN a.status = BAD_REQUEST /\ a.body = BODY_QUOTA
        ELSE a.text \in FlowTexts }

OpenPr ==
    [exists |-> TRUE, title |-> TITLE_2, body |-> DESCRIPTION_1,
     draft |-> TRUE]

InitFlow ==
    /\ NoDiff
    /\ service \in { "ai", "gemini" }
    /\ provider = GEMINI_PROVIDER
    /\ apiKey \in { <<>>, <<"k","1">> }
    /\ modelId = GEMINI_MODEL
    /\ GeneratorIdle
    /\ FlowIdle
    /\ pr \in { NoPr, OpenPr }
    /\ promptOnBranchPublish \in PublishModes
    /\ tree \in { NoDetails } \cup (IF pr.exists THEN { pr } ELSE {})
    /\ remoteRef \in BOOLEAN
    /\ ShellIdle
    /\ TreeIdle

NextFlow ==
    \/ StartCreatePr /\ UNCHANGED <<diffVars, first, shellVars, treeVars>>
    \/ StartRegenerateContent /\ UNCHANGED <<diffVars, first, shellVars, treeVars>>
    \/ StartRegenerateDescription /\ UNCHANGED <<diffVars, first, shellVars, treeVars>>
    \/ \E branch \in { <<>>, BRANCH_NAME } :
          DidPublish(branch) /\ UNCHANGED <<diffVars, first, shellVars, treeVars>>
    \/ \E outcome \in Outcomes :
          PrExistsReturns(outcome) /\ UNCHANGED <<diffVars, first, shellVars, treeVars>>
    \/ \E choice \in { CREATE_DRAFT_PR, NOT_NOW, DONT_ASK_AGAIN, DISMISSED } :
          QuestionAnswered(choice) /\ UNCHANGED <<diffVars, first, shellVars, treeVars>>
    \/ \E description \in Descriptions :
          StartSaveDescription(description) /\ UNCHANGED <<diffVars, first, shellVars, treeVars>>
    \/ \E outcome \in Outcomes :
          CurrentUserReturns(outcome) /\ UNCHANGED <<diffVars, first, shellVars, treeVars>>
    \/ \E outcome \in Outcomes :
          PrCreateReturns(outcome) /\ UNCHANGED <<diffVars, first, shellVars, treeVars>>
    \/ \E outcome \in Outcomes :
          PrDetailsReturns(outcome) /\ UNCHANGED <<diffVars, first, shellVars, treeVars>>
    \/ \E outcome \in Outcomes :
          FetchReturns(outcome) /\ UNCHANGED <<diffVars, first, shellVars, treeVars>>
    \/ \E outcome \in Outcomes, d \in GitDiffs :
          DiffRemoteReturns(outcome, d) /\ UNCHANGED <<diffVars, first, shellVars, treeVars>>
    \/ \E outcome \in Outcomes, d \in GitDiffs :
          DiffLocalReturns(outcome, d) /\ UNCHANGED <<diffVars, first, shellVars, treeVars>>
    \/ \E outcome \in Outcomes :
          LogRemoteReturns(outcome) /\ UNCHANGED <<diffVars, first, shellVars, treeVars>>
    \/ \E outcome \in Outcomes :
          LogLocalReturns(outcome) /\ UNCHANGED <<diffVars, first, shellVars, treeVars>>
    \/ \E outcome \in Outcomes :
          StatsReturns(outcome) /\ UNCHANGED <<diffVars, first, shellVars, treeVars>>
    \/ \E outcome \in Outcomes :
          BranchReturns(outcome) /\ UNCHANGED <<diffVars, first, shellVars, treeVars>>
    \/ \E answer \in FlowAnswers :
          GenerateReturns(answer) /\ UNCHANGED <<diffVars, first, shellVars, treeVars>>
    \/ \E outcome \in Outcomes :
          PrEditReturns(outcome) /\ UNCHANGED <<diffVars, first, shellVars, treeVars>>
    \/ \E outcome \in Outcomes :
          RefreshReturns(outcome) /\ UNCHANGED <<diffVars, first, shellVars, treeVars>>

SpecFlow == InitFlow /\ [][NextFlow]_vars

\* No request was made of the generator.
NoGenerator ==
    /\ service = "ai"
    /\ provider = "google"
    /\ apiKey = <<>>
    /\ modelId = <<>>
    /\ GeneratorIdle

\* SpecShell: escapeShellArg and the shell, over every argument of the
\* alphabet up to MaxArgLen characters.
InitShell ==
    /\ NoDiff
    /\ NoGenerator
    /\ NoFlow
    /\ TreeIdle
    /\ shellArg \in ShellArgs
    /\ escaped = <<>>
    /\ parsed = NoDetails
    /\ shellPc = "arg"

NextShell ==
    \/ EscapeArg /\ UNCHANGED <<diffVars, genVars, first, flowVars, treeVars>>
    \/ ShellReads /\ UNCHANGED <<diffVars, genVars, first, flowVars, treeVars>>

SpecShell == InitShell /\ [][NextShell]_vars

\* SpecTree: up to MaxRefreshes calls of refresh() that overlap in any
\* way, the pull request changing up to MaxChanges times, and getChildren
\* at any moment.
InitTree ==
    /\ NoDiff
    /\ NoGenerator
    /\ NoFlow
    /\ ShellIdle
    /\ isLoading = FALSE
    /\ treeError = NoError
    /\ prDetails = NoDetails
    /\ refreshes = <<>>
    /\ github \in PullRequests \cup { NoDetails }
    /\ changes = 0
    /\ children = <<>>
    /\ builtFrom = NoDetails

NextTree ==
    \/ RefreshStart /\ UNCHANGED <<diffVars, genVars, first, flowVars, shellVars>>
    \/ \E r \in 1..MaxRefreshes, outcome \in ViewOutcomes :
          GhPrViewEnds(r, outcome)
          /\ UNCHANGED <<diffVars, genVars, first, flowVars, shellVars>>
    \/ \E r \in 1..MaxRefreshes :
          RefreshEnds(r)
          /\ UNCHANGED <<diffVars, genVars, first, flowVars, shellVars>>
    \/ \E to \in PullRequests \cup { NoDetails } :
          GithubChanges(to)
          /\ UNCHANGED <<diffVars, genVars, first, flowVars, shellVars>>
    \/ getChildren /\ UNCHANGED <<diffVars, genVars, first, flowVars, shellVars>>

SpecTree == InitTree /\ [][NextTree]_vars

(***************************************************************************)
(* Vocabulary of the properties.                                           *)
(***************************************************************************)
Files == 1..Len(diff)

PathOf(k) == diff[k].path

\* The paths of the inputs that match a noise pattern (a lockfile, a file
\* under dist/) and those classified high-priority (under src/, or with a
\* source extension).
NoisePaths == { P_LOCK, P_DIST }

HighPriorityPaths == { P_APP, P_UTIL }

HdrIdx(k) == HeaderIndex(diff, k)

ContentIdxs(k) == (HdrIdx(k) + 1)..(HdrIdx(k) + diff[k].count)

Included(k) == PathOf(k) \notin NoisePaths

BudgetOf(k) == IF PathOf(k) \in HighPriorityPaths THEN 200 ELSE 100

\* Positions of the output that copy an input line of the set S.
Positions(S) == { p \in 1..Len(origin) : origin[p] \in S }

Count(seq, e) == Cardinality({ i \in 1..Len(seq) : seq[i] = e })

IsHeaderCopy(p) == \E k \in Files : origin[p] = HdrIdx(k)

\* The file whose header is the last one emitted at or before position p.
OwnedBy(p, k) ==
    \E q \in 1..p : /\ origin[q] = HdrIdx(k)
                    /\ \A r \in (q + 1)..p : ~IsHeaderCopy(r)

\* Per-file truncation sentinels emitted inside file k.
SentinelsOf(k) ==
    { p \in 1..Len(ret.diff) :
        origin[p] = 0 /\ ret.diff[p] # GLOBAL_SENTINEL /\ OwnedBy(p, k) }

Done == pc = "done"

\* The file has more content lines than its budget.
OverBudget(k) == Included(k) /\ diff[k].count > BudgetOf(k)

\* The global ceiling was not reached up to and including the file's
\* (budget + 1)-th content line.
TruncatedBeforeLimit(k) ==
    limitAt = 0 \/ limitAt > HdrIdx(k) + BudgetOf(k) + 1

PerFileTruncationOf(k) ==
    /\ Cardinality(SentinelsOf(k)) = 1
    /\ Positions((HdrIdx(k) + BudgetOf(k) + 1)..(HdrIdx(k) + diff[k].count)) = {}
    /\ Count(ret.stats.filesTruncated, PathOf(k)) = 1

\* C1 as stated: every included file with more content lines than its budget
\* gets exactly one per-file sentinel, no content line beyond the budget, and
\* its path exactly once in filesTruncated.
C1_AsStated == Done => \A k \in Files : OverBudget(k) => PerFileTruncationOf(k)

\* C1, amended: the same for every included over-budget file whose
\* (budget + 1)-th content line is processed before the global ceiling is
\* reached; its sentinel names the budget and exactly the first `budget`
\* content lines are emitted.
C1_PerFileTruncation ==
    Done => \A k \in Files :
        (OverBudget(k) /\ TruncatedBeforeLimit(k)) =>
            /\ PerFileTruncationOf(k)
            /\ \A p \in SentinelsOf(k) : ret.diff[p] = TruncMsg(BudgetOf(k))
            /\ \A i \in (HdrIdx(k) + 1)..(HdrIdx(k) + BudgetOf(k)) :
                   Cardinality(Positions({i})) = 1

C1_Witness ==
    /\ Done
    /\ \E k \in Files : /\ OverBudget(k) /\ TruncatedBeforeLimit(k)
                        /\ BudgetOf(k) = 200
                        /\ limitAt = 0
                        /\ Len(ret.stats.filesTruncated) = 2

\* C2 as stated: wasTruncated iff filesTruncated is non-empty or the running
\* character counter reached the ceiling.
C2_AsStated ==
    Done => (ret.wasTruncated <=>
                (ret.stats.filesTruncated # <<>> \/ totalChars >= MAX_TOTAL_CHARS))

\* C2, amended: wasTruncated iff filesTruncated is non-empty or the global
\* sentinel was emitted, that is, the counter was at or above the ceiling
\* when a further input line was still to be processed.
C2_WasTruncated ==
    Done => /\ ret.wasTruncated <=>
                 (ret.stats.filesTruncated # <<>>
                    \/ \E p \in 1..Len(ret.diff) : ret.diff[p] = GLOBAL_SENTINEL)
            /\ limitAt # 0 <=> \E p \in 1..Len(ret.diff) : ret.diff[p] = GLOBAL_SENTINEL

C2_Witness ==
    /\ Done
    /\ ret.wasTruncated
    /\ ret.stats.filesTruncated = <<>>
    /\ limitAt # 0

\* C3: the emitted text is no longer than the ceiling plus one global
\* sentinel line.
C3_GlobalCap ==
    Done => ret.diffLength <= MAX_TOTAL_CHARS + LineLength(GLOBAL_SENTINEL)

\* The header of file k is met once the global ceiling has been reached.
AfterLimit(k) == limitAt # 0 /\ HdrIdx(k) >= limitAt

NothingEmittedOf(k) == Positions({HdrIdx(k)} \cup ContentIdxs(k)) = {}

\* C4 as stated: every file whose header comes after the ceiling was reached,
\* noise or not, is recorded in filesTruncated and none of its lines is
\* emitted.
C4_AsStated ==
    Done => \A k \in Files :
        AfterLimit(k) => /\ Count(ret.stats.filesTruncated, PathOf(k)) >= 1
                         /\ NothingEmittedOf(k)

\* C4, amended: none of the lines of a file whose header comes after the
\* ceiling was reached is emitted; the file is recorded (once) in
\* filesTruncated if its path is non-empty and matches no noise pattern, and
\* is recorded nowhere otherwise.
C4_AfterGlobalLimit ==
    Done => \A k \in Files :
        AfterLimit(k) =>
            /\ NothingEmittedOf(k)
            /\ Count(ret.stats.filesSkipped, PathOf(k)) = 0
            /\ Count(ret.stats.filesTruncated, PathOf(k)) =
                   IF Included(k) /\ PathOf(k) # <<>> THEN 1 ELSE 0

C4_Witness ==
    /\ Done
    /\ \E k \in Files : /\ AfterLimit(k) /\ Included(k) /\ PathOf(k) # <<>>
                        /\ diff[k].count > 0
                        /\ ret.stats.filesTruncated = <<PathOf(k)>>

NoiseOnly == Len(diff) >= 1 /\ \A k \in Files : ~Included(k)

\* Characters counted for the lines of `ls` other than the global sentinel.
RECURSIVE CountedCharsIn(_, _, _)
CountedCharsIn(ls, lo, hi) ==
    IF lo > hi THEN 0
    ELSE IF lo = hi
         THEN (IF ls[lo] = GLOBAL_SENTINEL THEN 0 ELSE LineLength(ls[lo]) + 1)
    ELSE LET mid == (lo + hi) \div 2
         IN  CountedCharsIn(ls, lo, mid) + CountedCharsIn(ls, mid + 1, hi)

CountedChars(ls) == CountedCharsIn(ls, 1, Len(ls))

\* The file whose header or content line was processed last.
InFile(k) == HdrIdx(k) < idx /\ idx <= HdrIdx(k) + diff[k].count + 1

\* C5: a diff of noise files only yields an empty text, filesChanged = 0 and
\* all its paths, in order, in filesSkipped; in any diff no line of a noise
\* file is emitted, the per-file counter stays 0 inside a noise file and the
\* global counter ends as the count of the emitted lines only.
C5_NoiseFiles ==
    /\ Done =>
          /\ NoiseOnly => /\ ret.diff = <<>>
                          /\ ret.diffLength = 0
                          /\ ret.stats.filesChanged = 0
                          /\ ret.stats.filesSkipped = [k \in Files |-> PathOf(k)]
                          /\ ~ret.wasTruncated
          /\ \A k \in Files : ~Included(k) => NothingEmittedOf(k)
          /\ totalChars = CountedChars(ret.diff)
    /\ \A k \in Files :
          (~Included(k) /\ InFile(k) /\ ~globalLimitReached) => currentFileLines = 0

C5_Witness ==
    /\ Done
    /\ NoiseOnly
    /\ Len(diff) = 2
    /\ totalChars = 0

\* C6: inside an included file the budget in force is 200 if the path is
\* high-priority and 100 otherwise, whatever the budget of the file before;
\* the file's emitted content lines never exceed it.
C6_LineBudget ==
    /\ \A k \in Files :
          (Included(k) /\ InFile(k) /\ ~AfterLimit(k)) =>
              currentLineLimit = BudgetOf(k)
    /\ Done => \A k \in Files :
          /\ Cardinality(Positions(ContentIdxs(k))) <= BudgetOf(k)
          /\ (Included(k) /\ limitAt = 0) =>
                Cardinality(Positions(ContentIdxs(k))) =
                    IF diff[k].count <= BudgetOf(k) THEN diff[k].count
                    ELSE BudgetOf(k)

C6_Witness ==
    /\ Len(diff) = 2
    /\ Included(1) /\ Included(2)
    /\ BudgetOf(1) = 200 /\ BudgetOf(2) = 100
    /\ InFile(2) /\ ~AfterLimit(2)
    /\ currentFileLines = 100

Scenario ==
    /\ diff = ScenarioDiff
    /\ rawStats = ScenarioStats
    /\ commitMessages = ScenarioCommits

\* C7 as stated: in the end-to-end scenario src/app.ts (120 content lines) is
\* reported truncated and wasTruncated is true.
C7_AsStated ==
    (Done /\ Scenario) =>
        /\ ret.stats.filesChanged = 2
        /\ ret.stats.filesSkipped = <<P_LOCK>>
        /\ ret.stats.filesTruncated = <<P_APP>>
        /\ ret.stats.linesAdded = 80
        /\ ret.stats.linesDeleted = 30
        /\ ret.wasTruncated = TRUE

\* C7, amended: in the end-to-end scenario filesChanged = 2, filesSkipped is
\* [package-lock.json], linesAdded = 80, linesDeleted = 30, and, src/app.ts
\* having the 200-line budget, filesTruncated is empty, wasTruncated is false
\* and all 120 content lines of src/app.ts are emitted.
C7_Scenario ==
    (Done /\ Scenario) =>
        /\ ret.stats.filesChanged = 2
        /\ ret.stats.filesSkipped = <<P_LOCK>>
        /\ ret.stats.filesTruncated = <<>>
        /\ ret.stats.linesAdded = 80
        /\ ret.stats.linesDeleted = 30
        /\ ret.wasTruncated = FALSE
        /\ ret.commitMessages = <<"fix bug", "add feature">>
        /\ Cardinality(Positions(ContentIdxs(1))) = 120
        /\ Len(ret.diff) = 1 + 120 + 1 + 10

C7_Witness == Done /\ Scenario /\ idx = 1 + 120 + 1 + 5000 + 1 + 10 + 1

HeaderLinesIn(ls) == { p \in 1..Len(ls) : LineStartsWith(ls[p], DIFF_GIT) }

\* C8: filesChanged is the number of file-header lines in the emitted text,
\* which are the headers of the files that match no noise pattern and are
\* met before the global ceiling is reached.
C8_FilesChanged ==
    Done =>
        /\ ret.stats.filesChanged = Cardinality(HeaderLinesIn(ret.diff))
        /\ ret.stats.filesChanged =
               Cardinality({ k \in Files : Included(k) /\ ~AfterLimit(k) })
        /\ \A k \in Files :
               Cardinality(Positions({HdrIdx(k)})) =
                   IF Included(k) /\ ~AfterLimit(k) THEN 1 ELSE 0

C8_Witness ==
    /\ Done
    /\ Len(diff) = 2
    /\ ~Included(1)
    /\ Included(2)
    /\ limitAt # 0
    /\ ret.stats.filesChanged = 1

\* C9: linesAdded and linesDeleted are the raw additions and deletions and
\* commitMessages is the list passed in, also when files are skipped,
\* truncated or cut off by the global limit.
C9_RawStatsKept ==
    /\ stats.linesAdded = rawStats.additions
    /\ stats.linesDeleted = rawStats.deletions
    /\ Done => /\ ret.stats.linesAdded = rawStats.additions
               /\ ret.stats.linesDeleted = rawStats.deletions
               /\ ret.commitMessages = commitMessages

C9_Witness ==
    /\ Done
    /\ rawStats = ScenarioStats
    /\ commitMessages = ScenarioCommits
    /\ ret.stats.filesSkipped # <<>>
    /\ limitAt # 0
    /\ ret.stats.linesAdded = 80

(***************************************************************************)
(* The content generator.                                                  *)
(***************************************************************************)
Incomplete(d) ==
    d.apiKey = <<>> \/ (service = "ai" /\ d.modelId = <<>>)

ConfigurationError ==
    Failure(IF service = "ai" THEN AI_NOT_CONFIGURED ELSE GEMINI_NOT_CONFIGURED)

\* C10: a request entered with an empty API key, or with an empty model
\* identifier, fails with the configuration error and starts no backend
\* call; every backend call carries a non-empty key and model identifier.
C10_NotConfigured ==
    /\ (requests > 0 /\ Incomplete(startedWith)) =>
           /\ genPc = "failed"
           /\ genOutcome = ConfigurationError
           /\ genCalls = 0
    /\ genPc = "awaiting" => genCalls = 1
    /\ genCalls > 0 =>
           /\ genCall.made
           /\ genCall.model.apiKey # <<>> /\ genCall.model.modelId # <<>>
           /\ ~Incomplete(startedWith)
    /\ (requests <= 1 /\ genCalls = 0) => genCall = NoCall

C10_Witness ==
    /\ service = "ai"
    /\ requests = 1
    /\ startedWith.apiKey # <<>>
    /\ startedWith.modelId = <<>>
    /\ genPc = "failed"
    /\ genCall = NoCall

(***************************************************************************)
(* Responses and their outcomes.                                           *)
(***************************************************************************)
Answered == genPc \in { "returned", "failed" } /\ genAnswer # NoAnswer

AnsweredWithText ==
    /\ Answered
    /\ ~genAnswer.threw
    /\ (service = "gemini" => genAnswer.ok)

\* The JSON documents of a text, and the value a document carries under a
\* key (undefined when the key is missing).
DocsIn(t) == { t[i].doc : i \in { j \in 1..Len(t) : IsDoc(t[j]) } }

Carried(doc, key) == IF doc.type = "object" THEN doc[key] ELSE Undefined

NonEmptyText(v) == v.type = "string" /\ v.chars # <<>>

\* A missing key, or an empty value.
MissingOrEmpty(v) == v \in { Undefined, Null, Str(<<>>), Arr(<<>>) }

ParseOrFormatError ==
    IF service = "ai"
    THEN { Failure(AI_PARSE_FAILED), Failure(AI_INVALID_FORMAT) }
    ELSE { Failure(GEMINI_PARSE_FAILED), Failure(GEMINI_INVALID_FORMAT) }

\* C11: every successful return carries a non-empty title and a non-empty
\* description, and a response whose document misses either key, or has
\* either as an empty value, fails with the parse/format error.
C11_RequiredFields ==
    /\ genPc = "returned" =>
           /\ NonEmptyText(genOutcome.title)
           /\ NonEmptyText(genOutcome.description)
    /\ AnsweredWithText =>
           \A doc \in DocsIn(genAnswer.text) :
               (\/ MissingOrEmpty(Carried(doc, "title"))
                \/ MissingOrEmpty(Carried(doc, "description")))
               => genOutcome \in ParseOrFormatError

\* A well-formed response document, the texts that carry it bare and in a
\* code fence (plain or tagged json), and the result that holds its values.
WellFormed(doc) ==
    /\ doc.type = "object"
    /\ NonEmptyText(doc.title)
    /\ NonEmptyText(doc.description)

Bare(doc) == <<Doc(doc)>>

Fenced(doc) ==
    { Wrap(OPEN_FENCE, doc, CLOSE_FENCE),
      Wrap(OPEN_JSON_FENCE, doc, CLOSE_FENCE),
      Wrap(<<BT,BT,BT,"j","s","o","n">>, doc, <<BT,BT,BT>>),
      Wrap(<<BT,BT,BT,"J","S","O","N","\n">>, doc, <<"\n",BT,BT,BT,"\n">>) }

Returned(doc) ==
    [kind |-> "ok", title |-> doc.title, description |-> doc.description]

HttpFailed ==
    /\ Answered
    /\ IF service = "ai"
       THEN genAnswer.threw /\ genAnswer.error.name = "AI_APICallError"
       ELSE ~genAnswer.threw /\ ~genAnswer.ok

HttpStatus ==
    IF service = "ai" THEN genAnswer.error.statusCode ELSE genAnswer.status

HttpBody ==
    IF service = "ai" THEN genAnswer.error.responseBody ELSE genAnswer.body

HasKeyMarker(body) ==
    \E i \in 1..(Len(body) - 6) : SubSeq(body, i, i + 6) = API_KEY_MARKER

StatusText(st) == IF st = 400 THEN <<"4","0","0">> ELSE <<"5","0","0">>

CallMade == genCalls > 0

\* What the model is given, line by line, the system framing first.
Given == genCall.system \o genCall.prompt

At(text) == { i \in 1..Len(Given) : Given[i].head = text }

From(prefix) == { i \in 1..Len(Given) : StartsWith(Given[i].head, prefix) }

One(S) == CHOOSE i \in S : TRUE

Commits == genArgs.diffResult.commitMessages

\* C14: the sections stand in the order framing, title instructions,
\* description instructions, branch line (if a branch name is given), commit
\* bullets, statistics, task instruction, fenced diff, output format; with
\* no commit messages there is neither a commit header nor a bullet.
C14_SectionOrder ==
    CallMade =>
        LET framing == At(SYSTEM_FRAMING)
            title == From(TITLE_INSTRUCTIONS)
            description == From(DESCRIPTION_INSTRUCTIONS)
            branch == From(<<"B","r","a","n","c","h",":"," ">>)
            commits == At(<<"R","e","c","e","n","t"," ","C","o","m","m","i",
                            "t","s",":">>)
            statistics == At(DIFF_STATISTICS)
            task == At(TASK_INSTRUCTION)
            fence == At(DIFF_FENCE)
            format == At(RESPOND_ONLY)
        IN /\ \A S \in { framing, title, description, statistics, task, fence,
                         format } : Cardinality(S) = 1
           /\ One(framing) = 1
           /\ One(framing) < One(title)
           /\ One(title) < One(description)
           /\ One(description) < One(statistics)
           /\ One(statistics) < One(task)
           /\ One(task) < One(fence)
           /\ One(fence) + Len(genArgs.diffResult.diff) + 1 < One(format)
           /\ Given[One(title)].head = TITLE_INSTRUCTIONS \o genArgs.titleTemplate
           /\ Given[One(description)].head =
                  DESCRIPTION_INSTRUCTIONS \o genArgs.descriptionTemplate
           /\ IF genArgs.branchName = <<>> THEN branch = {}
              ELSE /\ Cardinality(branch) = 1
                   /\ One(description) < One(branch)
                   /\ One(branch) < One(statistics)
                   /\ commits # {} => One(branch) < One(commits)
           /\ IF Commits = <<>>
              THEN /\ commits = {}
                   /\ \A i \in One(description)..One(statistics) :
                          ~StartsWith(Given[i].head, <<"-">>)
              ELSE /\ Cardinality(commits) = 1
                   /\ One(description) < One(commits)
                   /\ One(commits) + Len(Commits) < One(statistics)
                   /\ \A k \in 1..Len(Commits) :
                          Given[One(commits) + k].head = <<"-"," ">> \o Commits[k]
           /\ \A k \in 1..Len(genArgs.diffResult.diff) :
                  Given[One(fence) + k] = genArgs.diffResult.diff[k]
           /\ Given[One(fence) + Len(genArgs.diffResult.diff) + 1].head
                  = <<BT,BT,BT>>

C14_Witness ==
    /\ CallMade
    /\ genPc = "awaiting"
    /\ Commits = <<>>
    /\ genArgs.branchName # <<>>
    /\ Len(genArgs.diffResult.diff) > 1
    /\ From(<<"B","r","a","n","c","h",":"," ">>) # {}

(***************************************************************************)
(* Two requests.                                                           *)
(***************************************************************************)
\* The current request is a later one than the first answered, with the
\* same arguments and another descriptor.
SameArgsOtherDescriptor ==
    /\ first # NoFirst
    /\ requests >= 2
    /\ CallMade
    /\ genArgs = first.args
    /\ genCall.model # first.model

\* C15: two requests with the same arguments and different provider, key or
\* model identifier give the backend the same system and user prompt, and
\* the same answer gives them the same result or the same error.
C15_DescriptorIndependent ==
    SameArgsOtherDescriptor =>
        /\ genCall.system = first.system
        /\ genCall.prompt = first.prompt
        /\ (Answered /\ genAnswer = first.answer) => genOutcome = first.outcome

C15_Witness ==
    /\ SameArgsOtherDescriptor
    /\ genCall.model.provider # first.model.provider
    /\ genCall.model.apiKey # first.model.apiKey
    /\ genPc = "returned"
    /\ genAnswer = first.answer
    /\ Len(genAnswer.text) > 1

(***************************************************************************)
(* Reconfiguration while a request is in flight.                           *)
(***************************************************************************)
\* C16: the backend call of a request is made with the provider, key and
\* model identifier that the service held when the request was entered, the
\* same that its configuration check saw; a reconfiguration (or setApiKey)
\* while the request awaits the backend leaves its call as it is.
C16_DescriptorSnapshot ==
    /\ [](/\ CallMade => (genCall.model = startedWith /\ ~Incomplete(startedWith))
          /\ (requests > 0 /\ ~CallMade) => Incomplete(startedWith))
    /\ [][(genPc = "awaiting" /\ genPc' = "awaiting")
            => (genCall' = genCall /\ startedWith' = startedWith)]_vars

C16_Witness ==
    /\ genPc = "awaiting"
    /\ requests = 1
    /\ startedWith.provider # provider
    /\ startedWith.apiKey # apiKey
    /\ apiKey # <<>>
    /\ genCall.model = startedWith

(***************************************************************************)
(* The handlers and their external calls.                                  *)
(***************************************************************************)
FlowDone == flowPc = "done"

Caught == caught # NoError

FailedRuns == { i \in 1..Len(cliLog) : ~cliLog[i].ok }

FailedRunOf(command) == \E i \in FailedRuns : cliLog[i].command = command

\* No command is run again after it failed.
NoRetry ==
    \A i, j \in 1..Len(cliLog) :
        (i < j /\ cliLog[i].command = cliLog[j].command) => cliLog[i].ok

\* The failed run is the last thing the handler did: it ended in its catch
\* block.
EndedTheHandler(i) == i = Len(cliLog) /\ FlowDone /\ Caught

\* The backend call of the handler's request failed, or its answer was
\* refused.
GenerationFailed == handler # "none" /\ genPc = "failed"

Thrown_On(i) ==
    \/ cliLog[i].command \in { "gh pr create", "git diff main...HEAD",
                               "git branch --show-current", "gh pr edit" }
    \/ /\ cliLog[i].command = "gh pr view --json fields"
       /\ i > 1
       /\ cliLog[i - 1].command = "gh pr create"

Truncated ==
    /\ handler \in { "createPr", "regenerateContent", "_regenerateDescription" }
    /\ local.diffResult # NoDetails
    /\ local.diffResult.wasTruncated

\* The handler got the branch name: nothing but truncation stood between
\* getDiff and the generation.
BranchRead == local.branchName # <<>>

ShownAs(level) ==
    \E i \in 1..Len(shown) :
        /\ shown[i].level = level
        /\ shown[i].message = TRUNCATION_WARNING

EditStarted ==
    \/ flowPc = "update"
    \/ \E i \in 1..Len(cliLog) : cliLog[i].command = "gh pr edit"

\* What else ends a handler in its catch block: a command whose failure is
\* thrown on, the generation, or updatePr on a value that is no text.
HardFailure ==
    \/ \E i \in FailedRuns : Thrown_On(i)
    \/ genPc = "failed"
    \/ caught.name = "TypeError"

RunsOf(command) == { i \in 1..Len(cliLog) : cliLog[i].command = command }

Placeholders ==
    /\ pr.exists
    /\ pr.draft
    /\ pr.title = <<"U","n","t","i","t","l","e","d">>
    /\ pr.body = PENDING_GENERATION

\* Content was asked for by the handler that runs.
ContentRequested == handler # "none" /\ genArgs # NoArgs

\* The handler has gone through create, generation and update, and ended
\* outside its catch block.
CreatedGeneratedUpdated ==
    /\ handler = "createPr"
    /\ FlowDone
    /\ ~Caught
    /\ genPc = "returned"

\* C19: createPr creates the draft with the placeholder title and body,
\* then asks for the content, then updates: content is asked for, and gh pr
\* edit is started, only after gh pr create succeeded, gh pr edit only after
\* the content was returned, and the PR holds the placeholders from the
\* create to the edit; when the command ends with success the PR has the
\* generated title and body.
C19_CreateGenerateUpdate ==
    handler = "createPr" =>
        /\ (ContentRequested \/ EditStarted) =>
              \E i \in RunsOf("gh pr create") : cliLog[i].ok
        /\ EditStarted => genPc = "returned"
        /\ \A i \in RunsOf("gh pr create"), j \in RunsOf("gh pr edit") : i < j
        /\ ((\E i \in RunsOf("gh pr create") : cliLog[i].ok)
              /\ ~(\E j \in RunsOf("gh pr edit") : cliLog[j].ok))
              => Placeholders
        /\ CreatedGeneratedUpdated =>
              /\ pr.title = genOutcome.title.chars
              /\ pr.body = genOutcome.description.chars

(***************************************************************************)
(* Branch-publish events.                                                  *)
(***************************************************************************)
\* The listener handles an event of a branch, with the setting it read.
PublishedWith(mode) == trigger = "publish" /\ local.setting = mode

Prompted == \E i \in 1..Len(shown) : shown[i].level = "question"

CreateCalled == trigger = "publish" /\ handler = "createPr"

\* The branch had its pull request when the event came: the handler has
\* created none.
HadPr == pr.exists /\ ~(\E i \in RunsOf("gh pr create") : cliLog[i].ok)

\* The listener has gone past the existence check.
Checked == FlowDone \/ CreateCalled \/ flowPc = "question"

\* C20: on a branch-publish event, with the setting "never" nothing is
\* prompted or created; when the branch has a pull request nothing is
\* prompted or created; with "always" createPr is called without a
\* question; with "ask" the question is put and createPr is called only on
\* the answer "Create Draft PR"; the answer "Don't Ask Again" stores
\* "never".
C20_PublishModes ==
    /\ PublishedWith("never") =>
          (~Prompted /\ ~CreateCalled /\ cliLog = <<>> /\ FlowDone)
    /\ (trigger = "publish" /\ HadPr) => (~Prompted /\ ~CreateCalled)
    /\ (PublishedWith("always") /\ ~HadPr /\ Checked) =>
          (~Prompted /\ CreateCalled)
    /\ (PublishedWith("ask") /\ ~HadPr /\ Checked) =>
          /\ Prompted
          /\ CreateCalled <=> local.result = "Create Draft PR"
    /\ (trigger = "publish" /\ local.result = "Don't Ask Again") =>
          (promptOnBranchPublish = "never" /\ FlowDone)

(***************************************************************************)
(* getDiff and its references.                                             *)
(***************************************************************************)
\* A command against the local reference has run only after the same
\* command against the remote reference failed.
LocalOnlyAfterRemoteFailed(remote, lcl) ==
    \A j \in RunsOf(lcl) : \E i \in RunsOf(remote) : i < j /\ ~cliLog[i].ok

\* The lines git log printed to the handler: those of the run that
\* succeeded.
LogSucceeded ==
    \E i \in 1..Len(cliLog) :
        /\ cliLog[i].ok
        /\ cliLog[i].command \in { "git log --oneline origin/main..HEAD",
                                   "git log --oneline main..HEAD" }

LogAnswered ==
    \/ LogSucceeded
    \/ \E j \in RunsOf("git log --oneline main..HEAD") : ~cliLog[j].ok

LogLines == GitLog(local.gitDiff)

NonBlankAt(lines) ==
    { i \in 1..Len(lines) : \E k \in 1..Len(lines[i]) :
                                lines[i][k] \notin { " ", "\t", "\r", "\f", "\n" } }

\* The position of the k-th line that is not blank.
NthNonBlank(lines, k) ==
    CHOOSE i \in NonBlankAt(lines) :
        Cardinality({ j \in NonBlankAt(lines) : j <= i }) = k

\* C21: the diff and the log against the local reference are run only
\* after the one against the remote reference failed, and the remote one
\* runs first; the commit messages getDiff hands on are the first 20 at
\* most of the lines of the log that are not blank, in their order, and
\* none when both logs failed.
C21_RemoteThenLocal ==
    /\ LocalOnlyAfterRemoteFailed("git diff origin/main...HEAD",
                                  "git diff main...HEAD")
    /\ LocalOnlyAfterRemoteFailed("git log --oneline origin/main..HEAD",
                                  "git log --oneline main..HEAD")
    /\ (LogAnswered /\ ~LogSucceeded) => local.commits = <<>>
    /\ LogSucceeded =>
          /\ Len(local.commits) =
                IF Cardinality(NonBlankAt(LogLines)) < 20
                THEN Cardinality(NonBlankAt(LogLines)) ELSE 20
          /\ \A k \in 1..Len(local.commits) :
                local.commits[k] = LogLines[NthNonBlank(LogLines, k)]
    /\ local.diffResult # NoDetails =>
          local.diffResult.commitMessages = local.commits

C21_Witness ==
    /\ local.diffResult # NoDetails
    /\ ~remoteRef
    /\ Len(LogLines) > 20
    /\ Len(local.diffResult.commitMessages) = 20
    /\ \E j \in RunsOf("git log --oneline main..HEAD") : cliLog[j].ok
    /\ \E j \in RunsOf("git diff main...HEAD") : cliLog[j].ok

(***************************************************************************)
(* The sentinel of the global limit.                                       *)
(***************************************************************************)
GlobalSentinelsIn(lines) == { p \in 1..Len(lines) : lines[p] = GLOBAL_SENTINEL }

\* C22: for every input, the sentinel of the global limit is in the output
\* once at most, at every moment of the loop and in the diff handed back;
\* it is there exactly when the limit was reached, and it is the last line
\* of the output: once it is there no header, content line or sentinel of
\* a file is emitted.
C22_GlobalSentinelLast ==
    /\ Cardinality(GlobalSentinelsIn(result)) <= 1
    /\ GlobalSentinelsIn(result) # {} <=> globalLimitReached
    /\ GlobalSentinelsIn(result) \subseteq {Len(result)}
    /\ Done => /\ Cardinality(GlobalSentinelsIn(ret.diff)) <= 1
               /\ GlobalSentinelsIn(ret.diff) \subseteq {Len(ret.diff)}
               /\ limitAt # 0 => /\ GlobalSentinelsIn(ret.diff) # {}
                                 /\ Positions(limitAt..NumLines(diff)) = {}

\* The limit is reached on the header of the second file, whose header and
\* content lines follow the sentinel in the input.
C22_Witness ==
    /\ Done
    /\ limitAt # 0
    /\ limitAt + 2 <= NumLines(diff)
    /\ \E k \in Files : HdrIdx(k) = limitAt /\ Included(k)
    /\ ret.diff[Len(ret.diff)] = GLOBAL_SENTINEL

(***************************************************************************)
(* The global character counter.                                           *)
(***************************************************************************)
\* One line was emitted in this step that is not the sentinel of the
\* global limit: a header, a content line or the sentinel of a file.
EmittedCounted ==
    /\ Len(result') = Len(result) + 1
    /\ result'[Len(result')] # GLOBAL_SENTINEL

\* C23: in every step of the loop the counter grows by the length of the
\* line plus one when a header, a content line or the sentinel of a file is
\* emitted, and is left as it is when the line is skipped or dropped; it
\* never decreases, at a header neither; it starts at 0, so that at the
\* return it is the sum of (length + 1) over the emitted lines other than
\* the sentinel of the global limit.
C23_CounterOfEmitted ==
    /\ [](/\ (idx = 1 => totalChars = 0)
          /\ (Done => totalChars = CountedChars(ret.diff)))
    /\ [][ /\ totalChars' >= totalChars
           /\ EmittedCounted =>
                 totalChars' =
                    totalChars + LineLength(result'[Len(result')]) + 1
           /\ ~EmittedCounted => totalChars' = totalChars
           /\ \A p \in 1..Len(result) : result'[p] = result[p] ]_vars

\* The first file was cut at its budget, its sentinel was counted, and the
\* counter went on from there through the header and the content of the
\* second file.
C23_Witness ==
    /\ Done
    /\ Len(diff) = 2
    /\ limitAt = 0
    /\ OverBudget(1)
    /\ SentinelsOf(1) # {}
    /\ Included(2)
    /\ diff[2].count > 0
    /\ totalChars =
          CountedChars(SubSeq(ret.diff, 1, BudgetOf(1) + 1))
          + LineLength(TruncMsg(BudgetOf(1))) + 1
          + CountedChars(SubSeq(ret.diff, BudgetOf(1) + 3, Len(ret.diff)))

(***************************************************************************)
(* A file whose header gives no path.                                      *)
(***************************************************************************)
Malformed(k) == diff[k].header = MalformedHeader

\* What processDiff does with an included file met before the global limit:
\* the header is emitted and counted, the content lines up to the budget of
\* 100 are emitted unless the global limit cuts them, and the file that has
\* more is cut by one sentinel and recorded by its path in filesTruncated.
ProcessedAsIncluded(k) ==
    /\ Cardinality(Positions({HdrIdx(k)})) = 1
    /\ ret.stats.filesChanged =
           Cardinality({ j \in Files : Included(j) /\ ~AfterLimit(j) })
    /\ Count(ret.stats.filesSkipped, PathOf(k)) = 0
    /\ \A i \in ContentIdxs(k) :
           (i <= HdrIdx(k) + DEFAULT_LINES_PER_FILE /\ (limitAt = 0 \/ i < limitAt))
               <=> Positions({i}) # {}
    /\ (diff[k].count > DEFAULT_LINES_PER_FILE /\ TruncatedBeforeLimit(k)) =>
           /\ Cardinality(SentinelsOf(k)) = 1
           /\ \A p \in SentinelsOf(k) :
                  ret.diff[p] = TruncMsg(DEFAULT_LINES_PER_FILE)
           /\ Count(ret.stats.filesTruncated, PathOf(k)) = 1
           /\ ret.wasTruncated

\* C24 as stated: the file with the empty path is processed as an included
\* file of the default budget, and one met after the global limit is
\* dropped and recorded in filesTruncated as a file with a path is.
C24_AsStated ==
    Done => \A k \in Files : Malformed(k) =>
        /\ PathOf(k) = <<>>
        /\ ~AfterLimit(k) => ProcessedAsIncluded(k)
        /\ AfterLimit(k) => /\ NothingEmittedOf(k)
                            /\ Count(ret.stats.filesTruncated, PathOf(k)) = 1

\* C24, amended: before the global limit the file with the empty path is
\* processed as an included file of the default budget, the empty path
\* being the one recorded in filesTruncated when it is cut; met after the
\* global limit it is dropped and recorded nowhere.
C24_MalformedHeader ==
    Done => \A k \in Files : Malformed(k) =>
        /\ PathOf(k) = <<>>
        /\ ~AfterLimit(k) => ProcessedAsIncluded(k)
        /\ AfterLimit(k) => /\ NothingEmittedOf(k)
                            /\ Count(ret.stats.filesTruncated, PathOf(k)) = 0
                            /\ Count(ret.stats.filesSkipped, PathOf(k)) = 0
                            /\ ret.stats.filesChanged =
                                 Cardinality({ j \in Files :
                                     Included(j) /\ ~AfterLimit(j) })

\* The file with the empty path came first, was cut at 100 lines and is in
\* filesTruncated under the empty path.
C24_Witness ==
    /\ Done
    /\ Len(diff) = 2
    /\ Malformed(1)
    /\ Included(2)
    /\ ret.stats.filesChanged = 2
    /\ ret.stats.filesTruncated[1] = <<>>
    /\ Cardinality(Positions(ContentIdxs(1))) = DEFAULT_LINES_PER_FILE

(***************************************************************************)
(* A failure of the Create Pull Request command after the draft was made.  *)
(***************************************************************************)
CreatedDraft == \E i \in RunsOf("gh pr create") : cliLog[i].ok

\* getDiff, getCurrentBranch or generatePrContent has failed in createPr
\* after gh pr create succeeded.
FailedBeforeUpdate ==
    /\ handler = "createPr"
    /\ CreatedDraft
    /\ \/ FailedRunOf("git diff main...HEAD")
       \/ FailedRunOf("git branch --show-current")
       \/ GenerationFailed

DraftLeftAsCreated ==
    /\ FlowDone
    /\ Caught
    /\ RunsOf("gh pr edit") = {}
    /\ Placeholders
    /\ \A i \in 1..Len(shown) : shown[i].message # DRAFT_PR_CREATED
    /\ Len(shown) > 0
    /\ shown[Len(shown)].message = caught.message

\* C25 as stated: after such a failure no edit is run, the draft keeps its
\* placeholders, "Draft PR created!" is not shown and the message of the
\* failure is shown as an error.
C25_AsStated ==
    FailedBeforeUpdate =>
        /\ DraftLeftAsCreated
        /\ shown[Len(shown)].level = "error"

\* C25, amended: after such a failure no edit is run, the draft keeps its
\* placeholders, "Draft PR created!" is not shown and the message of the
\* failure is shown: as a warning when it starts with "warning:" in any
\* case, as an error otherwise.
C25_FailedAfterCreate ==
    FailedBeforeUpdate =>
        /\ DraftLeftAsCreated
        /\ shown[Len(shown)].level =
              IF StartsWith(ToLowerCase(caught.message), WARNING_PREFIX)
              THEN "warning" ELSE "error"

\* The content could not be generated for the draft just created.
C25_Witness ==
    /\ FailedBeforeUpdate
    /\ GenerationFailed
    /\ genCalls = 1
    /\ FailedRuns = {}
    /\ Placeholders
    /\ shown[Len(shown)].level = "error"

(***************************************************************************)
(* The save button of the description panel.                               *)
(***************************************************************************)
\* _saveDescription has reported the success: "Description saved!" is
\* shown and "saved" is posted to the webview.
SaveReported ==
    /\ handler = "_saveDescription"
    /\ \E i \in 1..Len(shown) : shown[i] = Information(DESCRIPTION_SAVED)
    /\ \E i \in 1..Len(shown) : shown[i] = PostMessage("saved", <<>>)

\* updatePr has returned to the handler without an error: the handler has
\* shown its message of success.
UpdateReturned ==
    \/ SaveReported
    \/ /\ handler # "none"
       /\ genPc = "returned"
       /\ \E i \in 1..Len(shown) :
              shown[i].message \in { DRAFT_PR_CREATED, CONTENT_REGENERATED }

EditRan == \E i \in RunsOf("gh pr edit") : cliLog[i].ok

\* C26: when _saveDescription reports the success for a description, the
\* empty one included, gh pr edit has run with success and the body of the
\* PR is that description; and when updatePr has returned without an error
\* to a handler, gh pr edit has run.
C26_SavedMeansEdited ==
    /\ SaveReported => /\ EditRan
                       /\ pr.body = local.description
    /\ UpdateReturned => EditRan

(***************************************************************************)
(* The statistics of a diff taken against the local reference.             *)
(***************************************************************************)
\* getDiff has returned a result whose text is the output of the diff
\* against the local reference, the remote one being absent.
DiffFromLocal ==
    /\ ~remoteRef
    /\ local.diffResult # NoDetails
    /\ \E j \in RunsOf("git diff main...HEAD") : cliLog[j].ok

\* C28: when the remote reference is absent and the text of the result is
\* that of the diff against the local reference, linesAdded and
\* linesDeleted of the result are the numbers of that same diff.
C28_StatsOfLocalDiff ==
    DiffFromLocal =>
        /\ local.diffResult.stats.linesAdded = local.gitDiff.stats.linesAdded
        /\ local.diffResult.stats.linesDeleted = local.gitDiff.stats.linesDeleted

(***************************************************************************)
(* Refreshes of the tree that overlap.                                     *)
(***************************************************************************)
InFlight == { r \in 1..Len(refreshes) : refreshes[r].at # "done" }

\* What the refresh that started last got from getPrDetails: the details,
\* or none when gh pr view failed.
DetailsOfLastStarted == refreshes[Len(refreshes)].result.details

\* C27: however the calls of refresh() overlap, the loading flag is true
\* while at least one of them has not ended; once all have ended it is
\* false and the details held are those the refresh that started last got.
C27_LoadingWhileInFlight ==
    /\ InFlight # {} => isLoading
    /\ (InFlight = {} /\ refreshes # <<>>) =>
          /\ ~isLoading
          /\ prDetails = DetailsOfLastStarted

(***************************************************************************)
(* The round trip of an argument through escapeShellArg and the shell.     *)
(***************************************************************************)
\* C29: for every title or body over the alphabet with the double quote,
\* the dollar sign, the backquote and the backslash, the shell reads the
\* word "escapeShellArg(s)" to its end as one argument, and the argument
\* is s.
C29_ShellRoundTrip ==
    shellPc = "parsed" => /\ parsed.ok
                          /\ parsed.text = shellArg

(***************************************************************************)
(* The status item of the tree.                                            *)
(***************************************************************************)
\* C30: the tree built for a pull request of any state and draft flag has
\* as its first item the status item, whose contextValue is one of
\* prStatusDraft, prStatusOpen, prStatusMerged and prStatusClosed, and is
\* prStatusDraft exactly when the pull request is a draft.
C30_StatusContext ==
    builtFrom # NoDetails =>
        /\ children[1].contextValue \in StatusContexts
        /\ children[1].contextValue = PR_STATUS_DRAFT <=> builtFrom.isDraft

====
